---- MODULE Spec2Model ----
(***************************************************************************)
(* A model of the picoclaw RAG engine (package rag): the bbolt/vectors.bin  *)
(* Store, the comet index provider with its dirty flag, the Service's       *)
(* admission control (queue counter + concurrency slots) and the file       *)
(* Watcher with its two debounce timers.                                    *)
(***************************************************************************)
EXTENDS Integers, Sequences, FiniteSets, TLC

\* ---------------------------------------------------------------- bounds
\* Paragraph texts that may occur in the knowledge base.
MaxPara == 1
\* cfg.QueueSize and cfg.Concurrency of the Service under admission control.
QueueSize == 2
Concurrency == 1
\* Flush workers the watcher has stopped waiting for and that have yet to take p.mu.
MaxOrphans == 1
\* Chunks and vectors in one SaveIndex or SaveVectors call.
MaxStored == 2
\* The last chunk ordinal of big.md, the document of several chunks.
MaxOrd == 4
\* The hits a provider returns for one query, in the order it returns them.
MaxHits == 3
\* The Search and FetchChunk calls that race on one provider.
MaxReaders == 2

VARIABLES
    st,      \* the Store on disk: index.db (meta/dirty, meta/info, chunks) and vectors.bin
    p,       \* the cometProvider's fields (lost on a crash)
    call,    \* the provider call that holds p.mu exclusively, and its position
    last,    \* the operation that returned last, and what it returned
    hist     \* history: idxOnly, the index on disk was saved by a flush whose vectors
             \* are not the ones on disk (its SaveVectors has not succeeded); recov,
             \* where a process that restarted on a dirty store stands: "fresh" (no rebuild run yet), "rebuilding" (a rebuild was
             \* run, no Build has completed), or "no"

VARIABLES
    q,       \* Service.q: searches admitted and not yet finished
    sem,     \* len(Service.sem): concurrency slots taken
    spc,     \* where each Search call stands
    bpc,     \* where the BuildIndex call stands
    rpc,     \* where the watcher's reindex stands
    ret      \* the Service call that returned last

VARIABLES
    wpc,     \* where the watcher's loop goroutine stands
    wctx,    \* the loop's context: "live", or "cancelled" by Stop or by the parent
    tmr,     \* the loop's debounce timers: set (TRUE) or nil
    wk,      \* the goroutines flushIfDirty started to run fp.Flush()
    sd       \* how the flushIfDirty of the shutdown ended

VARIABLES
    tm,      \* the loop's two time.Timers in detail: "nil", "armed", "fired" (the fire
             \* sits in the timer's channel), "stale" (re-armed over an undrained fire)
    since,   \* per timer, what its handler did since the latest relevant event: "never"
             \* (no event yet), "due", "done" (ran once), "again" (ran more than once)
    quiet,   \* the file system has come to rest: no further event will arrive (and, in
             \* the runs of SpecTLive, the walk, the embedder and the disk work from then on)
    shorter, \* the watcher's reindexDebounce is shorter than its flushDebounce
    dirs,    \* the directories that exist under the KB root
    subs,    \* the directories the fsnotify watcher is subscribed to
    evq      \* the event in flight on fsw.Events, if any

VARIABLES
    db,      \* index.db as bbolt holds it: the meta bucket and the chunks bucket
    vf,      \* vectors.bin: its 32-bit words, or None when there is no such file
    kept,    \* the arguments of the last SaveIndex and SaveVectors that returned nil
    got      \* what a fresh Store instance last loaded
VARIABLES
    req,     \* the Service.Search or splitMarkdownChunks call made: its arguments
    res      \* what that call returned

VARIABLES
    mu,      \* the provider's sync.RWMutex: its writer (0: none) and its readers
    bld,     \* where the Build call racing the readers stands, and its chunks
    rd,      \* per reader (a Search or FetchChunk call): where it stands, what it saw
    lk       \* history: how often ensureLoaded took the exclusive lock (slow), read
             \* the store's IndexInfo (reads) and streamed the store into memory (loads)

pvars == <<st, p, call, last, hist>>
avars == <<q, sem, spc, bpc, rpc, ret>>
wvars == <<wpc, wctx, tmr, wk, sd>>
tvars == <<tm, since, quiet, shorter>>
evars == <<dirs, subs, evq>>
svars == <<db, vf, kept, got>>
rvars == <<req, res>>
lvars == <<mu, bld, rd, lk>>
vars == <<pvars, avars, wvars, tvars, evars, svars, rvars, lvars>>

\* ----------------------------------------------------------- Go values
\* A nil pointer / nil slice is None; a non-nil one wraps its value.
None == <<>>
Some(x) == <<x>>
\* len() and range treat a nil slice as the empty one.
Elems(o) == IF o = None THEN <<>> ELSE o[1]

Paras == 1..MaxPara
\* Embedders a provider may be opened with: 0 is the nil embedder, otherwise Dims().
Embedders == {0, 1}

\* newEmbedder also builds embedders whose dims field starts at 0 and is discovered on
\* the first Embed (provider "vllm"): -d is such an embedder, not yet called, of a model
\* that returns vectors of length d; once called it is the embedder d.
AllEmbedders == {0, 1, 2, -1, -2}

\* The length of the vectors the embedder's model returns.
VecLen(e) == IF e < 0 THEN 0 - e ELSE e

\* httpEmbedder.Dims: the preset or discovered dims, 0 while unknown.
Dims(e) == IF e < 0 THEN 0 ELSE e

\* The embedder after an Embed call that returned vectors: dimsOnce has set dims.
Discovered(e) == VecLen(e)

\* The texts of a set of paragraphs in document order.
RECURSIVE InOrder(_)
InOrder(S) ==
    IF S = {} THEN <<>>
    ELSE LET m == CHOOSE x \in S : \A y \in S : y <= x
         IN  Append(InOrder(S \ {m}), m)

\* buildChunksAndInfo: the chunks of the KB's one document, ordinals from 1, the
\* paragraph id a hash of path and text (here: the text itself).
ChunksOf(texts) ==
    [i \in 1..Len(texts) |-> [src |-> "a.md", ord |-> i, pid |-> texts[i], text |-> texts[i]]]

\* The chunk lists a build may be handed: the document holds any of the paragraphs.
KbInputs == {ChunksOf(InOrder(S)) : S \in SUBSET Paras}

\* IndexInfo, cut to the field the provider reads: TotalChunks.
InfoOf(chs) == [total |-> Len(chs)]

\* Embedder.Embed: the vector of a text under an embedder of d dimensions.
Embed(text, d) == [of |-> text, dims |-> d]

\* ---------------------------------------------------------------- Store
NoVectors == [present |-> FALSE, ok |-> TRUE, v |-> <<>>]
TornVectors == [present |-> TRUE, ok |-> FALSE, v |-> <<>>]

EmptyStore == [dirty |-> FALSE, info |-> None, chunks |-> <<>>, vec |-> NoVectors]

SetDirty(s, d) == [s EXCEPT !.dirty = d]

\* Mutant: IsDirty reads a key that is never written.
IsDirtyNever(s) == FALSE

IsDirty(s) == s.dirty

\* Mutant: the SaveIndex transaction rewrites the meta bucket and drops the dirty key.
SaveIndexDropsDirty(s, info, chunks) ==
    [s EXCEPT !.info = Some(info), !.chunks = Elems(chunks), !.dirty = FALSE]

SaveIndex(s, info, chunks) == [s EXCEPT !.info = Some(info), !.chunks = Elems(chunks)]

SaveVectors(s, vectors) ==
    IF Len(Elems(vectors)) = 0
    THEN [s EXCEPT !.vec = NoVectors]
    ELSE [s EXCEPT !.vec = [present |-> TRUE, ok |-> TRUE, v |-> Elems(vectors)]]

\* LoadVectors / ForEachVector: [err, v]; a missing file is no vectors and no error.
LoadVectors(s) ==
    IF ~s.vec.present THEN [err |-> FALSE, v |-> <<>>]
    ELSE IF ~s.vec.ok THEN [err |-> TRUE, v |-> <<>>]
    ELSE [err |-> FALSE, v |-> s.vec.v]

LoadChunks(s) == s.chunks

\* LoadChunksByIndexes: positional ids start at 0.
LoadChunksByIndexes(s, ids) == {[id |-> i, chunk |-> s.chunks[i + 1]] : i \in {j \in ids : j < Len(s.chunks)}}

LoadChunkBySourceAndOrdinal(s, src, ord) ==
    LET m == {i \in 1..Len(s.chunks) : s.chunks[i].src = src /\ s.chunks[i].ord = ord}
    IN  IF m = {} THEN None ELSE Some(s.chunks[CHOOSE i \in m : \A j \in m : i <= j])

\* -------------------------------------------------------- cometProvider
\* newCometProvider: a provider opened on a store, nothing loaded yet.
NewProvider(embedder) ==
    [embedder |-> embedder, chunks |-> None, vectors |-> None, info |-> None,
     txtIdx |-> None, vecIdx |-> None, hasVecs |-> FALSE, vecDims |-> 0,
     dirty |-> FALSE, indexReady |-> FALSE]

\* ParagraphID -> vector; a later chunk with the same id overwrites an earlier one.
CacheFrom(chs, vecs) ==
    [t \in {chs[i].pid : i \in 1..Len(chs)} |->
        vecs[CHOOSE i \in 1..Len(chs) : chs[i].pid = t /\ \A j \in 1..Len(chs) : chs[j].pid = t => j <= i]]

EmptyCache == [t \in {} |-> 0]

buildVectorCache(pr, s) ==
    IF pr.chunks # None /\ pr.vectors # None /\ Len(Elems(pr.chunks)) = Len(Elems(pr.vectors))
    THEN CacheFrom(Elems(pr.chunks), Elems(pr.vectors))
    ELSE LET chs == LoadChunks(s)
             lv == LoadVectors(s)
         IN  IF Len(chs) = 0 THEN EmptyCache
             ELSE IF lv.err \/ Len(lv.v) # Len(chs) THEN EmptyCache
             ELSE CacheFrom(chs, lv.v)

\* comet.NewFlatIndex(dims) + Add of every vector: fails on a vector of another length.
FlatAddFails(vectors, dims) == \E i \in 1..Len(vectors) : vectors[i].dims # dims

\* buildIndexes: [p, err].
buildIndexes(pr, chunks, vectors) ==
    LET p1 == [pr EXCEPT !.txtIdx = Some([i \in 1..Len(chunks) |-> chunks[i].text])]
    IN  IF Len(Elems(vectors)) > 0 /\ p1.vecDims > 0
        THEN IF FlatAddFails(Elems(vectors), p1.vecDims)
             THEN [p |-> p1, err |-> TRUE]
             ELSE [p |-> [p1 EXCEPT !.vecIdx = Some(Elems(vectors))], err |-> FALSE]
        ELSE [p |-> p1, err |-> FALSE]

\* Mutant: embedAndBuild returns without setting p.indexReady.
MarkReadyForgotten(pr) == pr

\* The end of embedAndBuild: p.indexReady = true.
MarkReady(pr) == [pr EXCEPT !.indexReady = TRUE]

\* embedAndBuild: [p, err]. embedOK is whether the embedder's Embed calls succeed.
embedAndBuild(pr, s, chunks, info, embedOK) ==
    LET p0 == [pr EXCEPT !.info = Some(info), !.indexReady = FALSE, !.hasVecs = FALSE]
    IN  IF p0.embedder # 0 /\ Len(chunks) > 0
        THEN LET vecCache == buildVectorCache(p0, s)
                 toEmbed == {i \in 1..Len(chunks) : chunks[i].pid \notin DOMAIN vecCache}
                 allVecs == [i \in 1..Len(chunks) |->
                                IF i \in toEmbed THEN Embed(chunks[i].text, VecLen(p0.embedder))
                                ELSE vecCache[chunks[i].pid]]
                 called == IF toEmbed # {} THEN Discovered(p0.embedder) ELSE p0.embedder
             IN  IF toEmbed # {} /\ ~embedOK
                 THEN [p |-> p0, err |-> TRUE]
                 ELSE LET p1 == [p0 EXCEPT !.vectors = Some(allVecs), !.embedder = called,
                                           !.vecDims = Dims(called),
                                           !.hasVecs = TRUE, !.chunks = Some(chunks)]
                          b == buildIndexes(p1, chunks, p1.vectors)
                      IN  IF b.err THEN b ELSE [p |-> MarkReady(b.p), err |-> FALSE]
        ELSE LET p1 == [p0 EXCEPT !.vectors = None, !.chunks = Some(chunks)]
                 b == buildIndexes(p1, chunks, p1.vectors)
             IN  IF b.err THEN b ELSE [p |-> MarkReady(b.p), err |-> FALSE]

\* Whether embedAndBuild would call the embedder at all (some chunk is not cached).
CallsEmbedder(pr, s, chunks) ==
    /\ pr.embedder # 0
    /\ \E i \in 1..Len(chunks) : chunks[i].pid \notin DOMAIN buildVectorCache(pr, s)

\* Build and Flush after a successful flushLocked: the buffers are released.
ReleaseBuffers(pr) == [pr EXCEPT !.chunks = None, !.vectors = None]

Invalidate(pr) ==
    [pr EXCEPT !.chunks = None, !.vectors = None, !.info = None, !.txtIdx = None,
               !.vecIdx = None, !.hasVecs = FALSE, !.dirty = FALSE, !.indexReady = FALSE]

\* ensureLoaded under the exclusive lock, once p.indexReady was found false again:
\* [p, err, read, load], err one of "" (nil), "dirty" (ErrDirtyIndex), "io", "dims";
\* read: the store's IndexInfo was read; load: its chunks and vectors were streamed.
loadFromStore(pr, s) ==
    IF IsDirty(s) THEN [p |-> pr, err |-> "dirty", read |-> FALSE, load |-> FALSE]
    ELSE IF s.info = None THEN [p |-> pr, err |-> "", read |-> TRUE, load |-> FALSE]
    ELSE LET p1 == [pr EXCEPT !.info = s.info]
         IN  IF s.info[1].total = 0 THEN [p |-> p1, err |-> "", read |-> TRUE, load |-> FALSE]
             ELSE LET chs == LoadChunks(s)
                      p2 == [p1 EXCEPT !.txtIdx = Some([i \in 1..Len(chs) |-> chs[i].text])]
                      lv == LoadVectors(s)
                  IN  IF lv.err THEN [p |-> p2, err |-> "io", read |-> TRUE, load |-> TRUE]
                      ELSE LET p3 == IF Len(lv.v) > 0 THEN [p2 EXCEPT !.vecDims = lv.v[1].dims] ELSE p2
                           IN  IF Len(lv.v) > 0 /\ FlatAddFails(lv.v, p3.vecDims)
                               THEN [p |-> p3, err |-> "io", read |-> TRUE, load |-> TRUE]
                               ELSE LET loaded == Len(lv.v) > 0 /\ Len(lv.v) = Len(chs)
                                        p4 == IF loaded THEN [p3 EXCEPT !.hasVecs = TRUE] ELSE p3
                                    IN  IF p4.hasVecs /\ p4.embedder # 0 /\ Dims(p4.embedder) > 0
                                           /\ p4.vecDims # Dims(p4.embedder)
                                        THEN [p |-> [p4 EXCEPT !.hasVecs = FALSE], err |-> "dims",
                                              read |-> TRUE, load |-> TRUE]
                                        ELSE [p |-> [p4 EXCEPT !.vecIdx = IF loaded THEN Some(lv.v) ELSE None,
                                                               !.indexReady = TRUE],
                                              err |-> "", read |-> TRUE, load |-> TRUE]

\* Mutant: the slow path does not look at p.indexReady again under the exclusive lock.
ensureLoadedNoSecondLook(pr, s) == loadFromStore(pr, s)

\* ensureLoaded: nothing to do when p.indexReady, else the load from the store.
ensureLoaded(pr, s) ==
    IF pr.indexReady THEN [p |-> pr, err |-> "", read |-> FALSE, load |-> FALSE]
    ELSE loadFromStore(pr, s)

\* resolveHits: the chunks behind positional ids (from 0), resident or from the store.
resolveHits(pr, s, ids) ==
    IF pr.chunks # None
    THEN {[id |-> i, chunk |-> pr.chunks[1][i + 1]] : i \in {j \in ids : j < Len(pr.chunks[1])}}
    ELSE LoadChunksByIndexes(s, ids)

\* BM25: the ids of the indexed texts that contain the query term.
Bm25Ids(pr, query) == {i - 1 : i \in {j \in 1..Len(Elems(pr.txtIdx)) : pr.txtIdx[1][j] = query}}

\* The results carry the warnings added to their copy of the IndexInfo.
searchTextOnly(pr, s, query) ==
    [err |-> "", hits |-> resolveHits(pr, s, Bm25Ids(pr, query)), warnings |-> <<>>]

\* Mutant: a failed query embedding fails the search.
searchHybridEmbedErrorFails(pr, s, query, embedOK) ==
    IF pr.embedder = 0 THEN [err |-> "panic", hits |-> {}, warnings |-> <<>>]
    ELSE IF ~embedOK THEN [err |-> "embed", hits |-> {}, warnings |-> <<>>]
    ELSE IF pr.vecIdx = None THEN [err |-> "panic", hits |-> {}, warnings |-> <<>>]
    ELSE [err |-> "", warnings |-> <<>>,
          hits |-> resolveHits(pr, s, Bm25Ids(pr, query) \cup {i - 1 : i \in 1..Len(pr.vecIdx[1])})]

\* searchHybrid: a failed query embedding falls back to BM25 and appends a warning to
\* the result's IndexInfo; the flat index returns its K nearest, which is every vector
\* when K exceeds their number. A nil embedder or a nil vecIdx is a nil dereference.
searchHybrid(pr, s, query, embedOK) ==
    IF pr.embedder = 0 THEN [err |-> "panic", hits |-> {}, warnings |-> <<>>]
    ELSE IF ~embedOK
    THEN [searchTextOnly(pr, s, query) EXCEPT !.warnings = Append(@, "semantic_fallback_to_keyword")]
    ELSE IF pr.vecIdx = None THEN [err |-> "panic", hits |-> {}, warnings |-> <<>>]
    ELSE [err |-> "", warnings |-> <<>>,
          hits |-> resolveHits(pr, s, Bm25Ids(pr, query) \cup {i - 1 : i \in 1..Len(pr.vecIdx[1])})]

\* Search after ensureLoaded returned nil.
searchLoaded(pr, s, query, keywordOnly, embedOK) ==
    IF ~pr.indexReady
    THEN IF pr.info = None THEN [err |-> "notbuilt", hits |-> {}, warnings |-> <<>>]
         ELSE [err |-> "", hits |-> {}, warnings |-> <<>>]
    ELSE IF pr.hasVecs /\ ~keywordOnly THEN searchHybrid(pr, s, query, embedOK)
    ELSE searchTextOnly(pr, s, query)

\* cometProvider.Search: [p, err, hits, warnings]; p is the provider after ensureLoaded and, when
\* searchHybrid got the query's vector, with the embedder's dims discovered.
Search(pr, s, query, keywordOnly, embedOK) ==
    LET l == ensureLoaded(pr, s)
        r == searchLoaded(l.p, s, query, keywordOnly, embedOK)
        hybrid == l.p.indexReady /\ l.p.hasVecs /\ ~keywordOnly /\ l.p.embedder # 0 /\ embedOK
    IN  IF l.err # "" THEN [p |-> l.p, err |-> l.err, hits |-> {}, warnings |-> <<>>]
        ELSE [p |-> IF hybrid THEN [l.p EXCEPT !.embedder = Discovered(@)] ELSE l.p,
              err |-> r.err, hits |-> r.hits, warnings |-> r.warnings]

\* Mutant: FetchChunk always reads the store.
fetchLoadedFromStore(pr, s, src, ord) == LoadChunkBySourceAndOrdinal(s, src, ord)

\* FetchChunk after ensureLoaded returned nil: None is os.ErrNotExist.
fetchLoaded(pr, s, src, ord) ==
    IF pr.chunks # None
    THEN LET m == {i \in 1..Len(pr.chunks[1]) : pr.chunks[1][i].src = src /\ pr.chunks[1][i].ord = ord}
         IN  IF m = {} THEN None ELSE Some(pr.chunks[1][CHOOSE i \in m : \A j \in m : i <= j])
    ELSE LoadChunkBySourceAndOrdinal(s, src, ord)

\* ------------------------------------------- provider calls, step by step
\* The index state a call may change (the fields p.mu guards, without the dirty mirror).
IndexState(pr) == <<pr.chunks, pr.vectors, pr.info, pr.txtIdx, pr.vecIdx, pr.hasVecs, pr.indexReady>>

Idle == [op |-> "idle", pc |-> "", changed |-> FALSE, savedIdx |-> FALSE, savedVec |-> FALSE]

\* A Build or Flush entering flushLocked; changed: whether it has changed the index
\* state it found.
Enter(op, changed) == [op |-> op, pc |-> "saveIndex", changed |-> changed,
                       savedIdx |-> FALSE, savedVec |-> FALSE]

NoReturn == [op |-> "", err |-> "", changed |-> FALSE, saved |-> FALSE]

\* What a returning Build, BuildInMemory or Flush leaves in `last`: its error, whether
\* it changed the index state it found, and whether it saved both index and vectors.
Returned(op, err, changed, saved) ==
    [op |-> op, err |-> err, changed |-> changed, saved |-> saved]

\* Outcomes of a store write: done; failed before the bbolt commit (or before the
\* file was opened); failed after it (db.Sync failed, or the file was partly written).
IoOutcomes == {"ok", "fail", "failApplied"}

\* A rebuild (Build or BuildInMemory) is run.
RebuildRun(h) == [h EXCEPT !.recov = IF @ = "fresh" THEN "rebuilding" ELSE @]

PInit ==
    /\ st = EmptyStore
    /\ p \in {NewProvider(e) : e \in Embedders}
    /\ call = Idle
    /\ last = NoReturn
    /\ hist = [idxOnly |-> FALSE, recov |-> "no"]

\* cometProvider.Build up to the flush: embedAndBuild under p.mu.
BuildCall(chunks, embedOK) ==
    /\ call.op = "idle"
    /\ ~embedOK => CallsEmbedder(p, st, chunks)
    /\ LET r == embedAndBuild(p, st, chunks, InfoOf(chunks), embedOK)
       IN  /\ p' = r.p
           /\ IF r.err
              THEN /\ call' = Idle
                   /\ last' = Returned("Build", "embed", IndexState(r.p) # IndexState(p), FALSE)
              ELSE /\ call' = Enter("Build", IndexState(r.p) # IndexState(p))
                   /\ last' = NoReturn
    /\ hist' = RebuildRun(hist)
    /\ UNCHANGED st

\* cometProvider.BuildInMemory: embedAndBuild, p.dirty = true, store.SetDirty(true).
BuildInMemoryCall(chunks, embedOK, io) ==
    /\ call.op = "idle"
    /\ ~embedOK => CallsEmbedder(p, st, chunks) /\ io = "ok"
    /\ LET r == embedAndBuild(p, st, chunks, InfoOf(chunks), embedOK)
       IN  IF r.err
           THEN /\ p' = r.p
                /\ st' = st
                /\ hist' = RebuildRun(hist)
                /\ last' = Returned("BuildInMemory", "embed", IndexState(r.p) # IndexState(p), FALSE)
           ELSE /\ p' = [r.p EXCEPT !.dirty = TRUE]
                /\ st' = IF io = "fail" THEN st ELSE SetDirty(st, TRUE)
                /\ hist' = RebuildRun(hist)
                /\ last' = Returned("BuildInMemory", IF io = "ok" THEN "" ELSE "io",
                                         IndexState(r.p) # IndexState(p), FALSE)
    /\ UNCHANGED call

\* cometProvider.Flush up to the first write: flushLocked returns nil when p.info is nil.
FlushCall ==
    /\ call.op = "idle"
    /\ IF p.info = None
       THEN /\ call' = Idle
            /\ last' = Returned("Flush", "", IndexState(ReleaseBuffers(p)) # IndexState(p), FALSE)
            /\ p' = ReleaseBuffers(p)
       ELSE /\ call' = Enter("Flush", FALSE)
            /\ last' = NoReturn
            /\ p' = p
    /\ UNCHANGED <<st, hist>>

\* flushLocked: store.SaveIndex(*p.info, p.chunks).
SaveIndexStep(io) ==
    /\ call.pc = "saveIndex"
    /\ st' = IF io = "fail" THEN st ELSE SaveIndex(st, p.info[1], p.chunks)
    /\ hist' = IF io = "fail" THEN hist
               ELSE [hist EXCEPT !.idxOnly = (SaveVectors(st, p.vectors).vec # st.vec)]
    /\ IF io = "ok"
       THEN /\ call' = [call EXCEPT !.pc = "saveVectors", !.savedIdx = TRUE]
            /\ last' = last
       ELSE /\ call' = Idle
            /\ last' = Returned(call.op, "io", call.changed, FALSE)
    /\ UNCHANGED p

\* flushLocked: store.SaveVectors(p.vectors); a failed os.WriteFile may leave a
\* partly written file.
SaveVectorsStep(io) ==
    /\ call.pc = "saveVectors"
    /\ io = "failApplied" => Len(Elems(p.vectors)) > 0
    /\ st' = CASE io = "ok" -> SaveVectors(st, p.vectors)
               [] io = "fail" -> st
               [] OTHER -> [st EXCEPT !.vec = TornVectors]
    /\ hist' = CASE io = "ok" -> [hist EXCEPT !.idxOnly = FALSE]
                 [] io = "fail" -> hist
                 [] OTHER -> [hist EXCEPT !.idxOnly = TRUE]
    /\ IF io = "ok"
       THEN /\ call' = [call EXCEPT !.pc = "setDirty", !.savedVec = TRUE]
            /\ last' = last
       ELSE /\ call' = Idle
            /\ last' = Returned(call.op, "io", call.changed, FALSE)
    /\ UNCHANGED p

\* flushLocked: store.SetDirty(false), p.dirty = false; then Build and Flush release
\* the chunk and vector buffers and return nil.
SetDirtyStep(io) ==
    /\ call.pc = "setDirty"
    /\ st' = IF io = "fail" THEN st ELSE SetDirty(st, FALSE)
    /\ p' = IF io = "ok" THEN ReleaseBuffers([p EXCEPT !.dirty = FALSE]) ELSE p
    /\ call' = Idle
    /\ last' = Returned(call.op, IF io = "ok" THEN "" ELSE "io",
                        call.changed \/ IndexState(p') # IndexState(p),
                        call.savedIdx /\ call.savedVec)
    /\ hist' = IF call.op = "Build" /\ io = "ok" THEN [hist EXCEPT !.recov = "no"] ELSE hist

InvalidateCall ==
    /\ call.op = "idle"
    /\ p' = Invalidate(p)
    /\ last' = [NoReturn EXCEPT !.op = "Invalidate"]
    /\ UNCHANGED <<st, call, hist>>

\* cometProvider.Search: ensureLoaded, then the search under the shared lock.
SearchCall(qt, keywordOnly, embedOK) ==
    /\ call.op = "idle"
    /\ ~embedOK => ~keywordOnly /\ p.embedder # 0
    /\ LET r == Search(p, st, qt, keywordOnly, embedOK)
       IN  /\ p' = r.p
           /\ last' = [NoReturn EXCEPT !.op = "Search", !.err = r.err]
    /\ UNCHANGED <<st, call, hist>>

\* cometProvider.FetchChunk of the KB document's chunk `ord`.
FetchChunkCall(ord) ==
    /\ call.op = "idle"
    /\ LET l == ensureLoaded(p, st)
           c == fetchLoaded(l.p, st, "a.md", ord)
       IN  /\ p' = l.p
           /\ last' = IF l.err # ""
                      THEN [NoReturn EXCEPT !.op = "FetchChunk", !.err = l.err]
                      ELSE [NoReturn EXCEPT !.op = "FetchChunk",
                                            !.err = IF c = None THEN "notexist" ELSE ""]
    /\ UNCHANGED <<st, call, hist>>

\* The process dies and a fresh provider is opened on the same store directory. A
\* crash inside os.WriteFile of vectors.bin may leave the file partly written.
Crash(embedder, torn) ==
    /\ torn => call.pc = "saveVectors" /\ Len(Elems(p.vectors)) > 0
    /\ st' = IF torn THEN [st EXCEPT !.vec = TornVectors] ELSE st
    /\ p' = NewProvider(embedder)
    /\ call' = Idle
    /\ last' = [NoReturn EXCEPT !.op = "open"]
    /\ hist' = [hist EXCEPT !.recov = IF st.dirty THEN "fresh" ELSE "no",
                             !.idxOnly = IF torn THEN TRUE ELSE @]

\* The Service with no call in progress.
Searchers == 1..(QueueSize + 1)
NoCall == [op |-> "", who |-> 0, err |-> "", deferred |-> FALSE, tick |-> FALSE]
AInit ==
    /\ q = 0
    /\ sem = 0
    /\ spc = [s \in Searchers |-> "idle"]
    /\ bpc = "idle"
    /\ rpc = "idle"
    /\ ret = NoCall

\* The watcher before Start: no timer set, no flush in progress.
NoWorkers == [own |-> "none", runner |-> "none", orphans |-> 0]
WInit ==
    /\ wpc = "select"
    /\ wctx = "live"
    /\ tmr = [reindex |-> FALSE, flush |-> FALSE]
    /\ wk = NoWorkers
    /\ sd = ""

\* OpenStore on a new directory: an empty database and no vectors.bin.
SInit ==
    /\ db = [info |-> None, chunks |-> <<>>]
    /\ vf = None
    /\ kept = [info |-> None, chunks |-> <<>>, vectors |-> <<>>]
    /\ got = None

\* No Search call made yet.
RInit == req = None /\ res = None

\* p.mu unlocked, no call made yet.
Readers == 1..MaxReaders
LInit ==
    /\ mu = [w |-> 0, r |-> {}]
    /\ bld = [pc |-> "idle", op |-> "", chunks |-> <<>>, err |-> ""]
    /\ rd = [r \in Readers |-> [pc |-> "idle", err |-> "", ready |-> FALSE]]
    /\ lk = [slow |-> 0, reads |-> 0, loads |-> 0]

\* NewWatcher: no timer yet; addRecursive(kbRoot) has subscribed the root, the one
\* directory there is; nothing is in flight.
TInit ==
    /\ tm = [reindex |-> "nil", flush |-> "nil"]
    /\ since = [reindex |-> "never", flush |-> "never"]
    /\ quiet = FALSE
    /\ dirs = {<<"kb">>}
    /\ subs = {<<"kb">>}
    /\ evq = <<>>

\* The default debounces: 2 s for the reindex, 30 s for the flush.
Init == PInit /\ AInit /\ WInit /\ TInit /\ SInit /\ RInit /\ LInit /\ shorter = TRUE

PNext ==
    \/ \E chunks \in KbInputs, embedOK \in BOOLEAN :
            BuildCall(chunks, embedOK) /\ UNCHANGED <<avars, wvars, tvars, evars, svars, rvars, lvars>>
    \/ \E chunks \in KbInputs, embedOK \in BOOLEAN, io \in IoOutcomes :
            BuildInMemoryCall(chunks, embedOK, io) /\ UNCHANGED <<avars, wvars, tvars, evars, svars, rvars, lvars>>
    \/ FlushCall /\ UNCHANGED <<avars, wvars, tvars, evars, svars, rvars, lvars>>
    \/ \E io \in IoOutcomes : SaveIndexStep(io) /\ UNCHANGED <<avars, wvars, tvars, evars, svars, rvars, lvars>>
    \/ \E io \in IoOutcomes : SaveVectorsStep(io) /\ UNCHANGED <<avars, wvars, tvars, evars, svars, rvars, lvars>>
    \/ \E io \in IoOutcomes : SetDirtyStep(io) /\ UNCHANGED <<avars, wvars, tvars, evars, svars, rvars, lvars>>
    \/ InvalidateCall /\ UNCHANGED <<avars, wvars, tvars, evars, svars, rvars, lvars>>
    \/ \E qt \in Paras, keywordOnly \in BOOLEAN, embedOK \in BOOLEAN :
            SearchCall(qt, keywordOnly, embedOK) /\ UNCHANGED <<avars, wvars, tvars, evars, svars, rvars, lvars>>
    \/ \E ord \in 1..MaxPara : FetchChunkCall(ord) /\ UNCHANGED <<avars, wvars, tvars, evars, svars, rvars, lvars>>
    \/ \E embedder \in Embedders, torn \in BOOLEAN : Crash(embedder, torn) /\ UNCHANGED <<avars, wvars, tvars, evars, svars, rvars, lvars>>

\* The provider over its store, driven by any sequence of calls and crashes.
Spec == Init /\ [][PNext]_vars

\* A provider opened with any embedder newEmbedder can build.
InitVec ==
    /\ st = EmptyStore
    /\ p \in {NewProvider(e) : e \in AllEmbedders}
    /\ call = Idle
    /\ last = NoReturn
    /\ hist = [idxOnly |-> FALSE, recov |-> "no"]
    /\ AInit /\ WInit /\ TInit /\ SInit /\ RInit /\ LInit /\ shorter = TRUE

\* The process is restarted with another embedding configuration.
Reconfigure(embedder) == Crash(embedder, FALSE) /\ UNCHANGED <<avars, wvars, tvars, evars, svars, rvars, lvars>>

VNext ==
    \/ PNext
    \/ \E embedder \in AllEmbedders \ Embedders : Reconfigure(embedder)

\* The provider over its store with every kind of embedder, preset or discovered dims.
SpecVec == InitVec /\ [][VNext]_vars

\* ------------------------------------------------- claims on the provider
\* Every Search fails with ErrDirtyIndex, whatever the query and mode.
SearchesFailDirty ==
    \A qt \in Paras, keywordOnly \in BOOLEAN, embedOK \in BOOLEAN :
        Search(p, st, qt, keywordOnly, embedOK).err = "dirty"

\* A Search for the text of any chunk on disk succeeds and returns that chunk.
MatchingQueriesHit ==
    \A i \in 1..Len(st.chunks), keywordOnly \in BOOLEAN, embedOK \in BOOLEAN :
        LET r == Search(p, st, st.chunks[i].text, keywordOnly, embedOK)
        IN  r.err = "" /\ \E h \in r.hits : h.chunk.text = st.chunks[i].text

\* After a Build that returned nil the dirty flag is clear, on disk and in the
\* provider, and matching queries return hits.
AfterBuildClean ==
    (last.op = "Build" /\ last.err = "") => (~st.dirty /\ ~p.dirty /\ MatchingQueriesHit)

\* C1: a fresh provider opened after a crash, at whatever point of whatever sequence
\* of Build, BuildInMemory and Flush, finds the persisted dirty flag set, or loads
\* chunks and vectors that one and the same flush wrote.
C1_CrashConsistent ==
    last.op = "open" => (st.dirty \/ (~hist.idxOnly /\ ~LoadVectors(st).err))

C3_DirtyLifecycle ==
    [][ /\ (st.dirty /\ ~st'.dirty) => (call.pc = "setDirty" /\ call.savedIdx /\ call.savedVec)
        /\ (last'.op = "BuildInMemory" /\ last'.err = "") => (st'.dirty /\ p'.dirty)
        /\ (last'.op = "Flush" /\ last'.err = "") => ~p'.dirty ]_pvars

\* C3 witness: a Flush that saved index and vectors has returned nil and the flag is clear.
C3_Witness == last.op = "Flush" /\ last.err = "" /\ last.saved /\ ~st.dirty /\ ~p.dirty

\* C4: when Build, BuildInMemory or Flush returns having changed the in-memory index
\* state without having saved both index and vectors, the persisted flag is set.
C4_DirtyWhenUnsaved ==
    (last.op \in {"Build", "BuildInMemory", "Flush"} /\ last.changed /\ ~last.saved) => st.dirty

\* C5 as stated: after a BuildInMemory that returned nil (no Flush yet) every Search
\* fails with dirty-index.
C5_SearchFailsAfterBuildInMemory ==
    (last.op = "BuildInMemory" /\ last.err = "") => SearchesFailDirty

\* C5 amended: after a BuildInMemory that returned nil the index is ready and no
\* Search fails with dirty-index although the flag is set; a Search fails with
\* dirty-index exactly while the flag is set and the provider has no ready index.
C5_DirtyOnlyWithoutReadyIndex ==
    /\ (last.op = "BuildInMemory" /\ last.err = "") =>
            (st.dirty /\ p.indexReady /\
             \A qt \in Paras, keywordOnly \in BOOLEAN, embedOK \in BOOLEAN :
                Search(p, st, qt, keywordOnly, embedOK).err # "dirty")
    /\ call.op = "idle" =>
            \A qt \in Paras, keywordOnly \in BOOLEAN, embedOK \in BOOLEAN :
                (Search(p, st, qt, keywordOnly, embedOK).err = "dirty") <=> (st.dirty /\ ~p.indexReady)

\* C5 witness: a Search was served from the resident chunks while the flag is set.
C5_Witness ==
    last.op = "Search" /\ last.err = "" /\ st.dirty /\ p.dirty /\ p.chunks # None

\* --------------------------------------------- Service admission control
\* What one admission call leaves in (Service.q, len(Service.sem)).
Adm(qv, semv) == [q |-> qv, sem |-> semv]

\* Mutant: the queue check compares with > and admits one search too many.
QueueFullAtLimitPlusOne(qv) == qv > QueueSize
\* beginQueued under s.mu: the queue is full when q has reached cfg.QueueSize.
QueueFull(qv) == qv >= QueueSize

\* A send on s.sem can proceed while the channel, of capacity cfg.Concurrency, has room.
SemHasRoom(semv) == semv < Concurrency

\* beginQueued past the queue check: s.q++, then the select whose send succeeds.
beginQueuedCounted(qv, semv) == Adm(qv + 1, semv)
beginQueuedSlot(qv, semv) == Adm(qv, semv + 1)

\* Mutant: the cancelled branch returns without s.q--.
beginQueuedCancelledKeepsCount(qv, semv) == Adm(qv, semv)
\* beginQueued when the select takes <-ctx.Done(): s.q-- under s.mu, no send.
beginQueuedCancelled(qv, semv) == Adm(qv - 1, semv)

\* endQueued: a non-blocking receive from s.sem, then s.q-- if s.q > 0.
endQueuedSlot(qv, semv) == Adm(qv, IF semv > 0 THEN semv - 1 ELSE semv)
\* Mutant: endQueued returns after the receive, without s.q--.
endQueuedKeepsCount(qv, semv) == Adm(qv, semv)
\* endQueued past the receive: s.q-- under s.mu if s.q > 0.
endQueuedCounted(qv, semv) == Adm(IF qv > 0 THEN qv - 1 ELSE qv, semv)

\* Mutant: acquireSem counts the rebuild against the search queue.
acquireSemThroughQueue(qv, semv) == Adm(qv + 1, semv + 1)
\* Mutant: releaseSem takes its default branch and leaves the slot taken.
releaseSemKeepsSlot(qv, semv) == Adm(qv, semv)
\* acquireSem when its send succeeds; releaseSem, a non-blocking receive.
acquireSem(qv, semv) == Adm(qv, semv + 1)
releaseSem(qv, semv) == Adm(qv, IF semv > 0 THEN semv - 1 ELSE semv)

\* A Service call returns: op, the caller, its error, and whether its deferred
\* endQueued ran; tick tells two equal returns apart.
Ret(op, who, err, deferred) ==
    [op |-> op, who |-> who, err |-> err, deferred |-> deferred, tick |-> ~ret.tick]

SetAdm(a) == q' = a.q /\ sem' = a.sem

\* Service.Search enters beginQueued: queue-full, or counted and waiting for a slot.
SearchBegin(s) ==
    /\ spc[s] = "idle"
    /\ IF QueueFull(q)
       THEN /\ ret' = Ret("Search", s, "queue_full", FALSE)
            /\ UNCHANGED <<q, sem, spc>>
       ELSE /\ SetAdm(beginQueuedCounted(q, sem))
            /\ spc' = [spc EXCEPT ![s] = "wait"]
            /\ UNCHANGED ret
    /\ UNCHANGED <<bpc, rpc>>

\* beginQueued's select takes the send: the search holds a slot; endQueued is deferred.
SearchSlot(s) ==
    /\ spc[s] = "wait"
    /\ SemHasRoom(sem)
    /\ SetAdm(beginQueuedSlot(q, sem))
    /\ spc' = [spc EXCEPT ![s] = "run"]
    /\ UNCHANGED <<bpc, rpc, ret>>

\* The caller's context is done and beginQueued's select takes <-ctx.Done().
SearchCancel(s) ==
    /\ spc[s] = "wait"
    /\ spc' = [spc EXCEPT ![s] = "cancelled"]
    /\ UNCHANGED <<q, sem, bpc, rpc, ret>>

\* ... s.q-- under s.mu; beginQueued and Search return ctx.Err(), nothing deferred.
SearchCancelReturn(s) ==
    /\ spc[s] = "cancelled"
    /\ SetAdm(beginQueuedCancelled(q, sem))
    /\ spc' = [spc EXCEPT ![s] = "idle"]
    /\ ret' = Ret("Search", s, "ctx", FALSE)
    /\ UNCHANGED <<bpc, rpc>>

\* The search is over (a result, an error or a panic): the deferred endQueued receives
\* from s.sem ...
SearchRelease(s) ==
    /\ spc[s] = "run"
    /\ SetAdm(endQueuedSlot(q, sem))
    /\ spc' = [spc EXCEPT ![s] = "released"]
    /\ UNCHANGED <<bpc, rpc, ret>>

\* What a Search that held a slot returns: a result, or the error of providerOrErr, of
\* the empty query, of validateFilters, of a query without tokens, or of
\* provider.Search.
SearchOutcomes == {"", "provider_init", "query_required", "filters", "no_tokens", "provider"}

\* ... and decrements s.q under s.mu; Search returns its result or its error.
SearchEnd(s) ==
    /\ spc[s] = "released"
    /\ SetAdm(endQueuedCounted(q, sem))
    /\ spc' = [spc EXCEPT ![s] = "idle"]
    /\ \E err \in SearchOutcomes : ret' = Ret("Search", s, err, TRUE)
    /\ UNCHANGED <<bpc, rpc>>

\* Service.BuildIndex up to acquireSem: MkdirAll, providerOrErr and buildChunksAndInfo
\* hold no slot; any of them may fail.
BuildIndexBegin(ok) ==
    /\ bpc = "idle"
    /\ IF ok
       THEN bpc' = "wait" /\ UNCHANGED ret
       ELSE bpc' = "idle" /\ ret' = Ret("BuildIndex", 0, "chunks", FALSE)
    /\ UNCHANGED <<q, sem, spc, rpc>>

\* acquireSem's select takes the send.
BuildIndexSlot ==
    /\ bpc = "wait"
    /\ SemHasRoom(sem)
    /\ SetAdm(acquireSem(q, sem))
    /\ bpc' = "run"
    /\ UNCHANGED <<spc, rpc, ret>>

\* acquireSem's select takes <-ctx.Done(): BuildIndex returns "build: " + ctx.Err().
BuildIndexCancel ==
    /\ bpc = "wait"
    /\ bpc' = "idle"
    /\ ret' = Ret("BuildIndex", 0, "ctx", FALSE)
    /\ UNCHANGED <<q, sem, spc, rpc>>

\* provider.Build has returned (nil or an error); the deferred releaseSem runs.
BuildIndexEnd(ok) ==
    /\ bpc = "run"
    /\ SetAdm(releaseSem(q, sem))
    /\ bpc' = "idle"
    /\ ret' = Ret("BuildIndex", 0, IF ok THEN "" ELSE "build", TRUE)
    /\ UNCHANGED <<spc, rpc>>

\* Watcher.reindex up to acquireSem: buildChunksAndInfo holds no slot and may fail.
ReindexBegin(ok) ==
    /\ rpc = "idle"
    /\ IF ok
       THEN rpc' = "wait" /\ UNCHANGED ret
       ELSE rpc' = "idle" /\ ret' = Ret("reindex", 0, "chunks", FALSE)
    /\ UNCHANGED <<q, sem, spc, bpc>>

ReindexSlot ==
    /\ rpc = "wait"
    /\ SemHasRoom(sem)
    /\ SetAdm(acquireSem(q, sem))
    /\ rpc' = "run"
    /\ UNCHANGED <<spc, bpc, ret>>

\* The watcher's context is done while reindex waits for a slot: it logs and returns.
ReindexCancel ==
    /\ rpc = "wait"
    /\ rpc' = "idle"
    /\ ret' = Ret("reindex", 0, "ctx", FALSE)
    /\ UNCHANGED <<q, sem, spc, bpc>>

\* BuildInMemory has returned (nil or an error, which is logged); releaseSem runs.
ReindexEnd(ok) ==
    /\ rpc = "run"
    /\ SetAdm(releaseSem(q, sem))
    /\ rpc' = "idle"
    /\ ret' = Ret("reindex", 0, IF ok THEN "" ELSE "build", TRUE)
    /\ UNCHANGED <<spc, bpc>>

ANext ==
    \/ \E s \in Searchers : SearchBegin(s) /\ UNCHANGED <<pvars, wvars, tvars, evars, svars, rvars, lvars>>
    \/ \E s \in Searchers : SearchSlot(s) /\ UNCHANGED <<pvars, wvars, tvars, evars, svars, rvars, lvars>>
    \/ \E s \in Searchers : SearchCancel(s) /\ UNCHANGED <<pvars, wvars, tvars, evars, svars, rvars, lvars>>
    \/ \E s \in Searchers : SearchCancelReturn(s) /\ UNCHANGED <<pvars, wvars, tvars, evars, svars, rvars, lvars>>
    \/ \E s \in Searchers : SearchRelease(s) /\ UNCHANGED <<pvars, wvars, tvars, evars, svars, rvars, lvars>>
    \/ \E s \in Searchers : SearchEnd(s) /\ UNCHANGED <<pvars, wvars, tvars, evars, svars, rvars, lvars>>
    \/ \E ok \in BOOLEAN : BuildIndexBegin(ok) /\ UNCHANGED <<pvars, wvars, tvars, evars, svars, rvars, lvars>>
    \/ BuildIndexSlot /\ UNCHANGED <<pvars, wvars, tvars, evars, svars, rvars, lvars>>
    \/ BuildIndexCancel /\ UNCHANGED <<pvars, wvars, tvars, evars, svars, rvars, lvars>>
    \/ \E ok \in BOOLEAN : BuildIndexEnd(ok) /\ UNCHANGED <<pvars, wvars, tvars, evars, svars, rvars, lvars>>
    \/ \E ok \in BOOLEAN : ReindexBegin(ok) /\ UNCHANGED <<pvars, wvars, tvars, evars, svars, rvars, lvars>>
    \/ ReindexSlot /\ UNCHANGED <<pvars, wvars, tvars, evars, svars, rvars, lvars>>
    \/ ReindexCancel /\ UNCHANGED <<pvars, wvars, tvars, evars, svars, rvars, lvars>>
    \/ \E ok \in BOOLEAN : ReindexEnd(ok) /\ UNCHANGED <<pvars, wvars, tvars, evars, svars, rvars, lvars>>

\* Concurrent Search, BuildIndex and watcher reindex calls on one Service. The provider
\* work a call does while it holds a slot touches neither s.q nor s.sem.
InitAdm == Init /\ p.embedder = 0
SpecAdm == InitAdm /\ [][ANext]_vars

\* ------------------------------------------------ claims on admission
\* Searches counted by beginQueued that have not finished, and calls holding a slot.
Counted == {s \in Searchers : spc[s] \in {"wait", "cancelled", "run", "released"}}
Holding ==
    {<<"Search", s>> : s \in {t \in Searchers : spc[t] = "run"}}
        \cup (IF bpc = "run" THEN {<<"BuildIndex", 0>>} ELSE {})
        \cup (IF rpc = "run" THEN {<<"reindex", 0>>} ELSE {})

\* The step is a Search call of s entering beginQueued.
Admission(s) ==
    /\ spc[s] = "idle"
    /\ spc'[s] # "idle" \/ (ret' # ret /\ ret'.op = "Search" /\ ret'.who = s)

\* C6: 0 <= q <= QueueSize and q counts the admitted, unfinished searches; beginQueued
\* returns queue-full, changing nothing, exactly when q has reached QueueSize, and
\* counts the search otherwise; so with QueueSize searches admitted and unfinished
\* every further Search gets queue-full.
C6_QueueBound ==
    /\ [](q \in 0..QueueSize /\ q = Cardinality(Counted))
    /\ [][\A s \in Searchers : Admission(s) =>
            /\ (ret'.err = "queue_full" /\ ret' # ret) <=> q = QueueSize
            /\ Cardinality(Counted) = QueueSize => (ret'.err = "queue_full" /\ ret' # ret)
            /\ IF q = QueueSize
               THEN UNCHANGED <<q, sem, spc>>
               ELSE q' = q + 1 /\ spc'[s] = "wait" /\ ret' = ret]_vars

\* C6 witness: with QueueSize searches admitted and unfinished, one more got queue-full.
C6_Witness ==
    ret.op = "Search" /\ ret.err = "queue_full" /\ q = QueueSize /\ Cardinality(Counted) = QueueSize

\* C7: the slots taken are exactly those of the calls holding one (searches past
\* admission, BuildIndex and reindex around their provider call), never more than
\* Concurrency; a release frees one slot, the releasing call's own.
C7_SlotsHeld ==
    /\ [](sem = Cardinality(Holding) /\ sem <= Concurrency)
    /\ [][sem' < sem =>
            (sem' = sem - 1 /\ Holding' \subseteq Holding /\ Cardinality(Holding \ Holding') = 1)]_vars

\* C7 witness: a search has released its slot, reindex holds it, BuildIndex waits.
C7_Witness ==
    sem = Concurrency /\ rpc = "run" /\ bpc = "wait" /\ ret.op = "Search" /\ ret.deferred

\* C8: when beginQueued's select takes ctx.Done() for a waiting search, no slot is
\* taken; Search then returns the context's error with q one less, again the number
\* of admitted unfinished searches, the caller holding no slot and endQueued not run.
C8_CancelledWhileWaiting ==
    [][\A s \in Searchers :
        /\ (spc[s] = "wait" /\ spc'[s] = "cancelled") => UNCHANGED <<q, sem>>
        /\ (spc[s] = "cancelled" /\ spc'[s] # "cancelled") =>
              /\ spc'[s] = "idle"
              /\ ret'.op = "Search" /\ ret'.who = s /\ ret'.err = "ctx" /\ ~ret'.deferred
              /\ q' = q - 1 /\ q' = Cardinality(Counted')
              /\ sem' = sem /\ sem' = Cardinality(Holding')
              /\ <<"Search", s>> \notin Holding']_vars

\* C8 witness: a cancelled Search has returned while others are counted and hold slots.
C8_Witness == ret.op = "Search" /\ ret.err = "ctx" /\ q > 0 /\ sem = Concurrency

\* C9: no step of BuildIndex or of the watcher's reindex changes q; neither returns
\* queue-full; waiting for a slot ends by taking one or with the context's error.
C9_RebuildsBypassQueue ==
    [][/\ (bpc' # bpc \/ rpc' # rpc) => q' = q
       /\ (ret' # ret /\ ret'.op \in {"BuildIndex", "reindex"}) => ret'.err # "queue_full"
       /\ (bpc = "wait" /\ bpc' # "wait") =>
              \/ bpc' = "run" /\ sem' = sem + 1
              \/ bpc' = "idle" /\ sem' = sem /\ ret'.op = "BuildIndex" /\ ret'.err = "ctx"
       /\ (rpc = "wait" /\ rpc' # "wait") =>
              \/ rpc' = "run" /\ sem' = sem + 1
              \/ rpc' = "idle" /\ sem' = sem /\ ret'.op = "reindex" /\ ret'.err = "ctx"]_vars

\* C9 witness: BuildIndex holds a slot while the search queue is full, a reindex done.
C9_Witness == q = QueueSize /\ bpc = "run" /\ ret.op = "reindex" /\ ret.err = ""

\* C34: a Search that holds a slot returns, whatever its outcome, through the deferred
\* endQueued only: one step that frees one slot and one that decrements q by one, run
\* once each; so whenever no Search is in progress q is 0 and the slots taken are
\* those of BuildIndex and of the reindex alone.
C34_SearchReleasesOnce ==
    /\ []((\A s \in Searchers : spc[s] = "idle") =>
            /\ q = 0
            /\ sem = (IF bpc = "run" THEN 1 ELSE 0) + (IF rpc = "run" THEN 1 ELSE 0))
    /\ [][\A s \in Searchers :
            /\ (spc[s] = "run" /\ spc'[s] # "run") =>
                    spc'[s] = "released" /\ sem' = sem - 1 /\ q' = q /\ ret' = ret
            /\ (spc[s] = "released" /\ spc'[s] # "released") =>
                    /\ spc'[s] = "idle" /\ sem' = sem /\ q' = q - 1
                    /\ ret'.op = "Search" /\ ret'.who = s /\ ret'.deferred
                    /\ ret'.err \in SearchOutcomes
            /\ (ret' # ret /\ ret'.op = "Search" /\ ret'.who = s /\ ret'.deferred) =>
                    spc[s] = "released" /\ spc'[s] = "idle"]_vars

\* C34 witness: a Search has returned the provider's error through endQueued, no
\* Search is in progress, and the one slot taken is that of BuildIndex.
C34_Witness ==
    /\ ret.op = "Search" /\ ret.err = "provider" /\ ret.deferred
    /\ \A s \in Searchers : spc[s] = "idle"
    /\ q = 0 /\ sem = 1 /\ bpc = "run"

\* ------------------------------------------------------------ the Watcher
\* Mutant: the shutdown flush is handed the loop's own, cancelled, context.
ShutdownFlushCtxLoop(loopCtx) == loopCtx
\* The context the loop hands to the flushIfDirty of its shutdown: context.Background().
ShutdownFlushCtx(loopCtx) == "background"

\* The context flushIfDirty waits on, by where the loop called it from.
FlushCtx(pcv) == IF pcv = "shutdownWait" THEN ShutdownFlushCtx("loop") ELSE "loop"

\* <-ctx.Done() is ready: context.Background() is never done.
CtxDone(c) == c = "loop" /\ wctx = "cancelled"

\* The worker that holds p.mu has returned from Flush (the call is over): it sends
\* its error on done, which only the loop that still waits for it receives.
Finish(k, c, l) ==
    IF c.op # "idle" THEN k
    ELSE [k EXCEPT !.runner = "none",
                   !.own = IF k.runner = "own" THEN (IF l.err = "" THEN "ok" ELSE "err") ELSE @]

\* flushIfDirty stops waiting for its worker, which goes on alone.
Abandon(k) ==
    [k EXCEPT !.own = "none",
              !.orphans = IF k.own = "pending" THEN @ + 1 ELSE @,
              !.runner = IF k.runner = "own" THEN "orphan" ELSE @]

\* Stop is called, or the context Start was given is cancelled.
WStop ==
    /\ wctx = "live"
    /\ wctx' = "cancelled"
    /\ UNCHANGED <<pvars, avars, wpc, tmr, wk, sd>>

\* loop: a relevant fsnotify event; resetReindex() and resetFlush().
WEvent ==
    /\ wpc = "select"
    /\ tmr' = [reindex |-> TRUE, flush |-> TRUE]
    /\ UNCHANGED <<pvars, avars, wpc, wctx, wk, sd>>

\* loop: the reindex timer fires; reindex(ctx) runs buildChunksAndInfo, acquireSem and
\* BuildInMemory, logs a failure of any of them, and releases the slot.
WReindexFire(chunks, ok, embedOK, io) ==
    /\ wpc = "select"
    /\ tmr.reindex
    /\ tmr' = [tmr EXCEPT !.reindex = FALSE]
    /\ IF ok
       THEN SemHasRoom(sem) /\ BuildInMemoryCall(chunks, embedOK, io)
       ELSE chunks = <<>> /\ embedOK /\ io = "ok" /\ UNCHANGED pvars
    /\ UNCHANGED <<avars, wpc, wctx, wk, sd>>

\* loop: the flush timer fires; flushIfDirty(ctx) reads IsDirty() under p.mu.RLock and,
\* if dirty, starts a worker for fp.Flush() and waits for it or for ctx.
WFlushFire ==
    /\ wpc = "select"
    /\ tmr.flush
    /\ call.op = "idle"
    /\ wk.orphans < MaxOrphans
    /\ tmr' = [tmr EXCEPT !.flush = FALSE]
    /\ IF p.dirty
       THEN wpc' = "flushWait" /\ wk' = [wk EXCEPT !.own = "pending"]
       ELSE UNCHANGED <<wpc, wk>>
    /\ UNCHANGED <<pvars, avars, wctx, sd>>

\* loop: <-ctx.Done() is taken; flushIfDirty(context.Background()), then return.
WShutdown ==
    /\ wpc = "select"
    /\ CtxDone("loop")
    /\ call.op = "idle"
    /\ IF p.dirty
       THEN wpc' = "shutdownWait" /\ wk' = [wk EXCEPT !.own = "pending"] /\ UNCHANGED sd
       ELSE wpc' = "stopped" /\ sd' = "clean" /\ UNCHANGED wk
    /\ UNCHANGED <<pvars, avars, wctx, tmr>>

\* flushIfDirty receives its worker's result from done.
WFlushDone ==
    /\ wpc \in {"flushWait", "shutdownWait"}
    /\ wk.own \in {"ok", "err"}
    /\ wk' = [wk EXCEPT !.own = "none"]
    /\ IF wpc = "shutdownWait"
       THEN wpc' = "stopped" /\ sd' = wk.own
       ELSE wpc' = "select" /\ UNCHANGED sd
    /\ UNCHANGED <<pvars, avars, wctx, tmr>>

\* flushIfDirty's select takes <-ctx.Done(): "timed out", the worker is left behind.
WFlushTimeout ==
    /\ wpc \in {"flushWait", "shutdownWait"}
    /\ CtxDone(FlushCtx(wpc))
    /\ wk' = Abandon(wk)
    /\ IF wpc = "shutdownWait"
       THEN wpc' = "stopped" /\ sd' = "timeout"
       ELSE wpc' = "select" /\ UNCHANGED sd
    /\ UNCHANGED <<pvars, avars, wctx, tmr>>

\* A worker takes p.mu and runs Flush up to its first write.
WWorkerLock(who) ==
    /\ wk.runner = "none"
    /\ IF who = "own" THEN wk.own = "pending" ELSE wk.orphans > 0
    /\ FlushCall
    /\ wk' = Finish([wk EXCEPT !.runner = who,
                               !.own = IF who = "own" THEN "running" ELSE @,
                               !.orphans = IF who = "own" THEN @ ELSE @ - 1], call', last')
    /\ UNCHANGED <<avars, wpc, wctx, tmr, sd>>

\* The worker's Flush goes through flushLocked.
WWorkerSaveIndex(io) ==
    /\ wk.runner # "none"
    /\ SaveIndexStep(io)
    /\ wk' = Finish(wk, call', last')
    /\ UNCHANGED <<avars, wpc, wctx, tmr, sd>>

WWorkerSaveVectors(io) ==
    /\ wk.runner # "none"
    /\ SaveVectorsStep(io)
    /\ wk' = Finish(wk, call', last')
    /\ UNCHANGED <<avars, wpc, wctx, tmr, sd>>

WWorkerSetDirty(io) ==
    /\ wk.runner # "none"
    /\ SetDirtyStep(io)
    /\ wk' = Finish(wk, call', last')
    /\ UNCHANGED <<avars, wpc, wctx, tmr, sd>>

WNext ==
    \/ WStop /\ UNCHANGED <<tvars, evars, svars, rvars, lvars>>
    \/ WEvent /\ UNCHANGED <<tvars, evars, svars, rvars, lvars>>
    \/ \E chunks \in KbInputs, ok \in BOOLEAN, embedOK \in BOOLEAN, io \in IoOutcomes :
            WReindexFire(chunks, ok, embedOK, io) /\ UNCHANGED <<tvars, evars, svars, rvars, lvars>>
    \/ WFlushFire /\ UNCHANGED <<tvars, evars, svars, rvars, lvars>>
    \/ WShutdown /\ UNCHANGED <<tvars, evars, svars, rvars, lvars>>
    \/ WFlushDone /\ UNCHANGED <<tvars, evars, svars, rvars, lvars>>
    \/ WFlushTimeout /\ UNCHANGED <<tvars, evars, svars, rvars, lvars>>
    \/ \E who \in {"own", "orphan"} : WWorkerLock(who) /\ UNCHANGED <<tvars, evars, svars, rvars, lvars>>
    \/ \E io \in IoOutcomes : WWorkerSaveIndex(io) /\ UNCHANGED <<tvars, evars, svars, rvars, lvars>>
    \/ \E io \in IoOutcomes : WWorkerSaveVectors(io) /\ UNCHANGED <<tvars, evars, svars, rvars, lvars>>
    \/ \E io \in IoOutcomes : WWorkerSetDirty(io) /\ UNCHANGED <<tvars, evars, svars, rvars, lvars>>

\* A started Watcher over the provider: events, the two timers, Stop.
SpecW == Init /\ [][WNext]_vars

\* -------------------------------------------------- claims on the watcher
\* C10: when the watcher has stopped, its loop has either found the provider clean or
\* run a flush and waited for it to end; unless that flush failed, the provider is
\* not dirty.
C10_StopFlushes ==
    wpc = "stopped" => (sd \in {"clean", "ok", "err"} /\ (sd # "err" => ~p.dirty))

\* C10 witness: stopped after a reindex whose flush timer had not fired; the flush of
\* the shutdown succeeded and the provider is clean.
C10_Witness == wpc = "stopped" /\ sd = "ok" /\ tmr.flush /\ ~p.dirty /\ ~st.dirty

\* ---------------------------------------------------------------------------------
\* The watcher's loop in detail: file-system events, subscriptions and the two timers.

\* fsnotify.Op: the bits an Event's Op can carry.
Ops == {"Create", "Write", "Remove", "Rename", "Chmod"}

\* The base names the file system of the model uses, files and directories.
FileNames == {"a.md", "A.MD", "b.Md", "c.txt", "d.markdown", "md", "e.md.bak"}
DirNames == {"sub", "deep", "notes.md"}

\* filepath.Ext: the suffix of the last path element from its last dot, "" without one.
Ext(name) ==
    LET base == name[Len(name)]
    IN  CASE base \in {"a.md", "notes.md"} -> ".md"
          [] base = "A.MD" -> ".MD"
          [] base = "b.Md" -> ".Md"
          [] base = "c.txt" -> ".txt"
          [] base = "d.markdown" -> ".markdown"
          [] base = "e.md.bak" -> ".bak"
          [] OTHER -> ""

\* strings.ToLower on the extensions above.
ToLower(ext) ==
    CASE ext \in {".MD", ".Md"} -> ".md"
      [] OTHER -> ext

\* ev.Has(op)
Has(ev, op) == op \in ev.ops

\* Mutant: every .md event counts, chmod-only ones too.
isRelevantEventAnyOp(ev) == ToLower(Ext(ev.name)) = ".md"

\* isRelevantEvent: not chmod without write, create or remove, and the name ends in .md
\* whatever its case.
isRelevantEvent(ev) ==
    IF Has(ev, "Chmod") /\ ~Has(ev, "Write") /\ ~Has(ev, "Create") /\ ~Has(ev, "Remove")
    THEN FALSE
    ELSE ToLower(Ext(ev.name)) = ".md"

\* The directories of the model's tree: kb, kb/sub, kb/sub/deep and kb/notes.md.
KbRoot == <<"kb">>
AllDirs == {KbRoot, <<"kb", "sub">>, <<"kb", "sub", "deep">>, <<"kb", "notes.md">>}
Parent(path) == SubSeq(path, 1, Len(path) - 1)
Under(path, root) == Len(path) >= Len(root) /\ SubSeq(path, 1, Len(root)) = root

\* addRecursive: WalkDir from root adds every directory found to the fsnotify watcher;
\* a root that is no directory (or is gone) adds nothing.
addRecursive(watched, root, tree) == watched \cup {d \in tree : Under(d, root)}

\* Mutant: Reset on a timer whose fire was never received, without draining the channel.
resetTimerNoDrain(t) ==
    CASE t = "fired" -> "stale"
      [] t = "stale" -> "stale"
      [] OTHER -> "armed"

\* resetReindex / resetFlush: NewTimer when there is none; otherwise Stop, drain the
\* channel when Stop reports the timer had already fired, and Reset.  A fire left in
\* the channel by an earlier arming ("stale") survives: Stop reports an armed timer.
resetTimer(t) ==
    CASE t = "stale" -> "stale"
      [] OTHER -> "armed"

\* Mutant: an event re-arms the reindex timer only.
resetReindexOnly(t) == [t EXCEPT !.reindex = resetTimer(@)]

\* The end of the Events case: resetReindex(); resetFlush().
resetBoth(t) == [reindex |-> resetTimer(t.reindex), flush |-> resetTimer(t.flush)]

\* The Events case up to the timers: an event isRelevantEvent rejects is dropped by
\* `continue` before the Create branch is looked at; a relevant Create whose name
\* os.Stat reports as a directory is passed to addRecursive.
subscribeRelevant(ev, watched, tree) ==
    IF isRelevantEvent(ev) /\ Has(ev, "Create") /\ ev.name \in tree
    THEN addRecursive(watched, ev.name, tree)
    ELSE watched

\* loop, case ev := <-w.fsw.Events: the whole case for the received event ev.
LoopEvent(ev) ==
    /\ wpc = "select"
    /\ subs' = subscribeRelevant(ev, subs, dirs)
    /\ IF isRelevantEvent(ev)
       THEN /\ WEvent
            /\ tm' = resetBoth(tm)
            /\ since' = [reindex |-> "due", flush |-> "due"]
       ELSE UNCHANGED <<pvars, avars, wvars, tm, since>>
    /\ UNCHANGED <<quiet, shorter, dirs, svars, rvars, lvars>>

\* The events the timer-level specification lets arrive: a write to a note, a chmod of
\* it, and a write to a file that is no note, all directly under the root.
SeenEvents ==
    {[name |-> <<"kb", "a.md">>, ops |-> {"Write"}],
     [name |-> <<"kb", "a.md">>, ops |-> {"Chmod"}],
     [name |-> <<"kb", "c.txt">>, ops |-> {"Write"}]}

\* An event arrives and the loop receives it.
TEvent(ev) ==
    /\ ~quiet
    /\ LoopEvent(ev)
    /\ UNCHANGED evq

\* The file system comes to rest: from here on no event arrives.
TQuiesce ==
    /\ ~quiet
    /\ quiet' = TRUE
    /\ UNCHANGED <<pvars, avars, wvars, tm, since, shorter, evars, svars, rvars, lvars>>

\* The runtime fires an armed timer: its debounce has run out with no reset.  The flush
\* debounce, being the longer one when `shorter`, cannot run out while the reindex
\* timer armed by the same event has not been served.
TExpire(which) ==
    /\ tm[which] \in {"armed", "stale"}
    /\ (which = "flush" /\ shorter) => tm.reindex = "nil"
    /\ tm' = [tm EXCEPT ![which] = IF @ = "armed" THEN "fired" ELSE "stale"]
    /\ UNCHANGED <<pvars, avars, wvars, since, quiet, shorter, evars, svars, rvars, lvars>>

\* The handler of a timer runs once more.
Ran(n) == IF n = "due" THEN "done" ELSE "again"

\* A timer's channel holds a fire the select can receive.
Receivable(t) == t \in {"fired", "stale"}

\* loop, case <-reindexC(): reindexTimer = nil; w.reindex(ctx).
TReindex(chunks, ok, embedOK, io) ==
    /\ Receivable(tm.reindex)
    /\ tm' = [tm EXCEPT !.reindex = "nil"]
    /\ since' = [since EXCEPT !.reindex = Ran(@)]
    /\ WReindexFire(chunks, ok, embedOK, io)
    /\ UNCHANGED <<quiet, shorter, evars, svars, rvars, lvars>>

\* loop, case <-flushC(): flushTimer = nil; w.flushIfDirty(ctx).
TFlush ==
    /\ Receivable(tm.flush)
    /\ tm' = [tm EXCEPT !.flush = "nil"]
    /\ since' = [since EXCEPT !.flush = Ran(@)]
    /\ WFlushFire
    /\ UNCHANGED <<quiet, shorter, evars, svars, rvars, lvars>>

TNext ==
    \/ \E ev \in SeenEvents : TEvent(ev)
    \/ TQuiesce
    \/ \E which \in {"reindex", "flush"} : TExpire(which)
    \/ \E chunks \in KbInputs, ok \in BOOLEAN, embedOK \in BOOLEAN, io \in IoOutcomes :
            TReindex(chunks, ok, embedOK, io)
    \/ TFlush
    \/ WFlushDone /\ UNCHANGED <<tvars, evars, svars, rvars, lvars>>
    \/ WWorkerLock("own") /\ UNCHANGED <<tvars, evars, svars, rvars, lvars>>
    \/ \E io \in IoOutcomes : WWorkerSaveIndex(io) /\ UNCHANGED <<tvars, evars, svars, rvars, lvars>>
    \/ \E io \in IoOutcomes : WWorkerSaveVectors(io) /\ UNCHANGED <<tvars, evars, svars, rvars, lvars>>
    \/ \E io \in IoOutcomes : WWorkerSetDirty(io) /\ UNCHANGED <<tvars, evars, svars, rvars, lvars>>

\* WithReindexDebounce / WithFlushDebounce: either debounce may be the shorter one.
InitT == PInit /\ AInit /\ WInit /\ TInit /\ SInit /\ RInit /\ LInit /\ shorter \in BOOLEAN

\* A running watcher, its context live, with events, timers and Flush workers.
SpecT == InitT /\ [][TNext]_vars

\* The walk of the KB, the embedder and the disk all work.
FaultFree(ok, embedOK, io) == ok /\ embedOK /\ io = "ok"

\* The reindex case in a run whose faults end when the events do.
TReindexLive(chunks, ok, embedOK, io) ==
    /\ quiet => FaultFree(ok, embedOK, io)
    /\ TReindex(chunks, ok, embedOK, io)

\* The steps of the Flush worker in such a run.
TWorkerLive(io) ==
    /\ quiet => io = "ok"
    /\ \/ WWorkerSaveIndex(io)
       \/ WWorkerSaveVectors(io)
       \/ WWorkerSetDirty(io)
    /\ UNCHANGED <<tvars, evars, svars, rvars, lvars>>

TWorkerLock == WWorkerLock("own") /\ UNCHANGED <<tvars, evars, svars, rvars, lvars>>

TFlushDone == WFlushDone /\ UNCHANGED <<tvars, evars, svars, rvars, lvars>>

TReindexSome ==
    \E chunks \in KbInputs, ok \in BOOLEAN, embedOK \in BOOLEAN, io \in IoOutcomes :
        TReindexLive(chunks, ok, embedOK, io)

TWorkerSome == \E io \in IoOutcomes : TWorkerLive(io)

TLiveNext ==
    \/ \E ev \in SeenEvents : TEvent(ev)
    \/ TQuiesce
    \/ \E which \in {"reindex", "flush"} : TExpire(which)
    \/ TReindexSome
    \/ TFlush
    \/ TFlushDone
    \/ TWorkerLock
    \/ TWorkerSome

\* The runtime fires armed timers, the loop goroutine takes a ready case of its select,
\* and the Flush worker runs.
TFair ==
    /\ WF_vars(TExpire("reindex"))
    /\ WF_vars(TExpire("flush"))
    /\ WF_vars(TReindexSome)
    /\ WF_vars(TFlush)
    /\ WF_vars(TFlushDone)
    /\ WF_vars(TWorkerLock)
    /\ WF_vars(TWorkerSome)

\* The watcher kept running under the default debounces; faults end when events do.
SpecTLive == Init /\ [][TLiveNext]_vars /\ TFair

\* The event a file operation of kinds ops on the path name produces.
Event(name, ops) == [name |-> name, ops |-> ops]

\* A directory is created: the kernel reports it when its parent is watched.
FsMkdir(d) ==
    /\ d \notin dirs
    /\ Parent(d) \in dirs
    /\ dirs' = dirs \cup {d}
    /\ IF Parent(d) \in subs
       THEN evq = <<>> /\ evq' = <<Event(d, {"Create"})>>
       ELSE UNCHANGED evq
    /\ UNCHANGED <<pvars, avars, wvars, tvars, subs, svars, rvars, lvars>>

\* A file changes in a watched directory; in an unwatched one nobody is told.
FsFile(d, base, ops) ==
    /\ d \in dirs \cap subs
    /\ evq = <<>>
    /\ evq' = <<Event(d \o <<base>>, ops)>>
    /\ UNCHANGED <<pvars, avars, wvars, tvars, dirs, subs, svars, rvars, lvars>>

\* The loop receives the event in flight.
EvReceive ==
    /\ evq # <<>>
    /\ LoopEvent(Head(evq))
    /\ evq' = <<>>

ENext ==
    \/ \E d \in AllDirs : FsMkdir(d)
    \/ \E d \in AllDirs, base \in FileNames, ops \in (SUBSET Ops) \ {{}} : FsFile(d, base, ops)
    \/ EvReceive
    \/ \E which \in {"reindex", "flush"} : TExpire(which)

\* The loop's Events case over a changing tree; what the loop does when it receives a
\* timer's fire is the subject of SpecT and touches neither subscriptions nor events.
SpecEv == InitT /\ [][ENext]_vars

\* The create event of directory d, or of a directory above it, is still in flight.
CreatePending(d) ==
    /\ evq # <<>>
    /\ Has(Head(evq), "Create")
    /\ Under(d, Head(evq).name)

\* C14: every directory under the KB root is watched once the loop has received the
\* event of its creation (so that a write to a note inside it is reported).
C14_NewDirsWatched == \A d \in dirs : d \in subs \/ CreatePending(d)

\* The name of the event ends in .md, in whatever case.
MdEvent(ev) == ToLower(Ext(ev.name)) = ".md"

\* A chmod that comes with no create, write or remove.
ChmodOnly(ev) == Has(ev, "Chmod") /\ ev.ops \cap {"Create", "Write", "Remove"} = {}

\* A step in which the loop receives the event in flight.
Receives == evq # <<>> /\ evq' = <<>>

BothArmed == [reindex |-> "armed", flush |-> "armed"]

\* C13 as stated: the relevant events are the .md events that include a create, a write
\* or a remove; they reset both timers and all others leave the timers alone.
C13_RelevantIffCreateWriteRemove ==
    [][Receives =>
        LET ev == Head(evq)
            relevant == MdEvent(ev) /\ ev.ops \cap {"Create", "Write", "Remove"} # {}
        IN  /\ isRelevantEvent(ev) <=> relevant
            /\ IF relevant THEN tm' = BothArmed ELSE tm' = tm]_vars

\* C13: the relevant events are the .md events (case-insensitively) that are not a
\* chmod without create, write or remove (a rename alone is relevant); exactly they
\* reset both timers, every other event leaves both timers unchanged.
C13_RelevantIffMdNotChmodOnly ==
    [][Receives =>
        LET ev == Head(evq)
            relevant == MdEvent(ev) /\ ~ChmodOnly(ev)
        IN  /\ isRelevantEvent(ev) <=> relevant
            /\ IF relevant THEN tm' = BothArmed ELSE tm' = tm]_vars

\* A relevant event has been received: both timers run and nothing is in flight.
C13_Witness == tm = BothArmed /\ evq = <<>> /\ <<"kb", "notes.md">> \in subs

\* A step in which the loop receives a relevant event.
RelevantStep == \E ev \in SeenEvents : isRelevantEvent(ev) /\ TEvent(ev)

\* Since the latest relevant event the handler of timer x has run exactly once or is
\* still to run off a fire of the latest arming, and without any event it has not run.
OncePerBurst(x) ==
    /\ tm[x] # "stale"
    /\ since[x] # "again"
    /\ since[x] = "due" <=> tm[x] \in {"armed", "fired"}
    /\ since[x] \in {"never", "done"} <=> tm[x] = "nil"

\* C12: every relevant event resets both timers, whatever state they are in; however
\* many relevant events come before a timer is served, its handler then runs once; no
\* fire from before the latest reset is left in a timer's channel to be served.
C12_ResetOnEveryEvent ==
    /\ [](OncePerBurst("reindex") /\ OncePerBurst("flush"))
    /\ [][RelevantStep => tm' = BothArmed /\ since'.reindex = "due"]_vars
    /\ [][tm'.reindex = "nil" /\ tm.reindex # "nil" => tm.reindex = "fired"]_vars

\* A second burst: the reindex of an earlier event has run, the flush timer of that
\* event had fired unserved when the next event reset it, and the reindex is due again.
C12_Witness ==
    /\ tm = BothArmed
    /\ since = [reindex |-> "due", flush |-> "due"]
    /\ p.dirty
    /\ tmr.flush

\* A Search for the text of any chunk of the rebuilt index returns that chunk.
ReindexedContentFound ==
    /\ p.chunks # None
    /\ \A i \in 1..Len(p.chunks[1]), keywordOnly \in BOOLEAN :
        LET r == Search(p, st, p.chunks[1][i].text, keywordOnly, TRUE)
        IN  r.err = "" /\ \E h \in r.hits : h.chunk.text = p.chunks[1][i].text

\* The reindex of the latest event has run BuildInMemory and the index serves its chunks.
Reindexed ==
    /\ since.reindex = "done"
    /\ last.op = "BuildInMemory" /\ last.err = ""
    /\ p.dirty
    /\ ReindexedContentFound

\* The flush of the latest event has run and the dirty flag is clear.
Flushed == since.flush = "done" /\ wpc = "select" /\ ~p.dirty /\ ~st.dirty

\* C11: once events have stopped after a relevant one, the reindex timer fires and
\* BuildInMemory runs on the walked chunks, which a Search then finds, and after that
\* the flush timer fires and Flush clears the dirty flag.
C11_ReindexThenFlush ==
    (quiet /\ since.reindex = "due") ~> (Reindexed /\ <>Flushed)

\* The whole course has been run: reindexed, flushed, clean, and the index still serves
\* a chunk.
C11_Witness == quiet /\ Flushed /\ st.chunks # <<>> /\ p.indexReady /\ last.op = "Flush"

\* vectors[i] is the embedding of chunks[i] by the provider's embedder, i for i, and
\* each is as long as the dims the provider records.
Aligned(chunks, vectors, e, dims) ==
    /\ Len(vectors) = Len(chunks)
    /\ \A i \in 1..Len(vectors) :
        vectors[i] = Embed(chunks[i].text, VecLen(e)) /\ vectors[i].dims = dims

\* C16: after a Build or BuildInMemory that returned nil, with an embedder and at least
\* one chunk, the resident vectors and, after the flush, the persisted ones are aligned
\* with the chunks and as long as the recorded dims, cached or freshly embedded.
C16_VectorsAligned ==
    (last.op \in {"Build", "BuildInMemory"} /\ last.err = "" /\ p.embedder # 0
        /\ p.info # None /\ p.info[1].total > 0) =>
            /\ p.vectors # None => Aligned(p.chunks[1], p.vectors[1], p.embedder, p.vecDims)
            /\ last.op = "Build" =>
                    /\ ~LoadVectors(st).err
                    /\ Aligned(LoadChunks(st), LoadVectors(st).v, p.embedder, p.vecDims)

\* ---------------------------------------------------------------------------------
\* Service.Search from the provider's hits to the items of the evidence pack.

\* The chunks of the knowledge base: big.md of several chunks, small.md of one.
KbChunks == {[src |-> "big.md", ord |-> i] : i \in 1..MaxOrd} \cup {[src |-> "small.md", ord |-> 1]}

KbSources == {"big.md", "small.md"}

\* searchRes.Hits: for some of the chunks a lexical score (0: the provider returned
\* the chunk for another reason) and final, the score lines 548-600 compute for it.
HitSets ==
    UNION {{{[src |-> c.src, ord |-> c.ord, lex |-> f[c].lex, final |-> f[c].final] : c \in S} :
              f \in [S -> {[lex |-> 0, final |-> 0], [lex |-> 1, final |-> 0],
                           [lex |-> 1, final |-> 1]}]} :
           S \in SUBSET KbChunks}

\* req.Filters: allow_restricted and confidentiality_allow.
FilterSets ==
    {[allowRestricted |-> a, confidentialityAllow |-> c] :
        a \in BOOLEAN, c \in {<<>>, <<"internal">>, <<" Restricted">>}}

\* FixedProfiles: BM25TopN, PerSourceCap, and WeightBM25 and WeightCosine in hundredths.
FixedProfiles ==
    [default_research |-> [id |-> "default_research", bm25TopN |-> 120, perSourceCap |-> 3,
                           weightBM25 |-> 60, weightCosine |-> 35],
     decisions_recent |-> [id |-> "decisions_recent", bm25TopN |-> 150, perSourceCap |-> 4,
                           weightBM25 |-> 65, weightCosine |-> 20],
     templates_lookup |-> [id |-> "templates_lookup", bm25TopN |-> 200, perSourceCap |-> 5,
                           weightBM25 |-> 90, weightCosine |-> 0]]

\* ResolveProfile(profileID, defaultProfileID)
ResolveProfile(profileID, defaultProfileID) ==
    IF profileID \in DOMAIN FixedProfiles THEN FixedProfiles[profileID]
    ELSE IF defaultProfileID \in DOMAIN FixedProfiles THEN FixedProfiles[defaultProfileID]
    ELSE FixedProfiles["default_research"]

\* strings.TrimSpace and strings.EqualFold on the values above.
TrimSpace(str) == IF str = " Restricted" THEN "Restricted" ELSE str

EqualFold(a, b) ==
    LET fold(str) == CASE str = "Restricted" -> "restricted"
                       [] str = " Restricted" -> " restricted"
                       [] OTHER -> str
    IN  fold(a) = fold(b)

\* validateFilters: "" or the error.
validateFilters(filters) ==
    IF ~filters.allowRestricted
       /\ \E i \in 1..Len(filters.confidentialityAllow) :
            EqualFold(filters.confidentialityAllow[i], "restricted")
    THEN "restricted cannot be requested"
    ELSE ""

\* Mutant: the restricted check is left to confidentiality_allow.
passesFiltersAllowOnly(confidentiality, filters) ==
    Len(filters.confidentialityAllow) > 0 =>
        \E i \in 1..Len(filters.confidentialityAllow) :
            EqualFold(TrimSpace(filters.confidentialityAllow[i]), confidentiality)

\* passesFilters, for a chunk of this confidentiality.
passesFilters(confidentiality, filters) ==
    /\ ~(~filters.allowRestricted /\ EqualFold(confidentiality, "restricted"))
    /\ Len(filters.confidentialityAllow) > 0 =>
        \E i \in 1..Len(filters.confidentialityAllow) :
            EqualFold(TrimSpace(filters.confidentialityAllow[i]), confidentiality)

\* Mutant: the comparison looks at the score alone.
BeforeScoreOnly(a, b, score) == a[score] > b[score]

\* The comparison of both sorts: score descending, then source path, then ordinal.
Before(a, b, score) ==
    IF a[score] = b[score]
    THEN IF a.src = b.src THEN a.ord < b.ord ELSE a.src = "big.md" /\ b.src = "small.md"
    ELSE a[score] > b[score]

\* sort.SliceStable under that comparison (no two candidates compare equal).
RECURSIVE SortCands(_, _)
SortCands(cands, score) ==
    IF cands = {} THEN <<>>
    ELSE LET first == CHOOSE c \in cands : \A d \in cands \ {c} : Before(c, d, score)
         IN  <<first>> \o SortCands(cands \ {first}, score)

\* Mutant: the loop counts the sources and skips none.
RECURSIVE capLoopCountOnly(_, _, _, _)
capLoopCountOnly(cands, items, topK, perSourceCap) ==
    IF cands = <<>> \/ Len(items) >= topK THEN items
    ELSE capLoopCountOnly(Tail(cands), Append(items, [src |-> Head(cands).src, ord |-> Head(cands).ord]),
                          topK, perSourceCap)

\* The loop over the sorted candidates: stop at topK items, skip a candidate whose
\* source already has perSourceCap items.
RECURSIVE capLoop(_, _, _, _)
capLoop(cands, items, topK, perSourceCap) ==
    IF cands = <<>> \/ Len(items) >= topK THEN items
    ELSE IF Cardinality({i \in 1..Len(items) : items[i].src = Head(cands).src}) >= perSourceCap
    THEN capLoop(Tail(cands), items, topK, perSourceCap)
    ELSE capLoop(Tail(cands), Append(items, [src |-> Head(cands).src, ord |-> Head(cands).ord]),
                 topK, perSourceCap)

\* The candidates: the hits that pass the filters and carry a positive score.
Candidates(r) ==
    {h \in r.hits : passesFilters(r.confidentiality[h.src], r.filters) /\ h.lex > 0}

\* Service.Search from validateFilters on: [err, items].
SearchItems(r) ==
    LET profile == ResolveProfile(r.profileID, "default_research")
        topK == IF r.topK <= 0 THEN 20 ELSE IF r.topK > 100 THEN 100 ELSE r.topK
        byRaw == SortCands(Candidates(r), "lex")
        topN == IF profile.bm25TopN <= 0 \/ profile.bm25TopN > Len(byRaw)
                THEN Len(byRaw) ELSE profile.bm25TopN
        scored == {byRaw[i] : i \in 1..topN}
    IN  IF validateFilters(r.filters) # "" THEN [err |-> validateFilters(r.filters), items |-> <<>>]
        ELSE [err |-> "", items |-> capLoop(SortCands(scored, "final"), <<>>, topK, profile.perSourceCap)]

\* One Search call: any hits over a knowledge base whose documents are internal or
\* restricted, any filters, top_k and profile.
SvcSearch(hits, confidentiality, filters, topK, profileID) ==
    /\ req = None
    /\ req' = Some([hits |-> hits, confidentiality |-> confidentiality, filters |-> filters,
                    topK |-> topK, profileID |-> profileID])
    /\ res' = Some(SearchItems(req'[1]))
    /\ UNCHANGED <<pvars, avars, wvars, tvars, evars, svars, lvars>>

\* The caller drops the result.
SvcDone ==
    /\ res # None
    /\ req' = None
    /\ res' = None
    /\ UNCHANGED <<pvars, avars, wvars, tvars, evars, svars, lvars>>

RNext ==
    \/ /\ req = None
       /\ \E hits \in HitSets, confidentiality \in [KbSources -> {"internal", "restricted"}],
             filters \in FilterSets, topK \in {0, 1, 2}, profileID \in {"", "decisions_recent"} :
               SvcSearch(hits, confidentiality, filters, topK, profileID)
    \/ SvcDone

\* The ranking of Service.Search over any request.
SpecSearch == InitAdm /\ [][RNext]_vars

\* ---------------------------------------------------------------------------------
\* Service.Search over the hits in the order the provider returned them.

\* sort.SliceStable(cands, less): each element goes behind the elements of the sorted
\* prefix that it is not before.
RECURSIVE SliceStable(_, _)
SliceStable(cands, score) ==
    IF cands = <<>> THEN <<>>
    ELSE LET sorted == SliceStable(SubSeq(cands, 1, Len(cands) - 1), score)
             c == cands[Len(cands)]
             k == Cardinality({i \in 1..Len(sorted) : ~Before(c, sorted[i], score)})
         IN  SubSeq(sorted, 1, k) \o <<c>> \o SubSeq(sorted, k + 1, Len(sorted))

\* The hit lists of one query: up to MaxHits chunks of big.md and small.md, no chunk
\* twice, in any order, as
\* cometProvider.searchHybrid ranges over its map. The provider fills LexicalScore and
\* SemanticScore (kind "hybrid"), LexicalScore alone (searchTextOnly, "lexical"), or
\* FusedScore alone (the provider of provider_comet.go, "fused").
HitSeqs ==
    LET scores == [lexical |-> {[lex |-> 1, sem |-> 0, fused |-> 0], [lex |-> 2, sem |-> 0, fused |-> 0]},
                   hybrid |-> {[lex |-> 1, sem |-> 0, fused |-> 0], [lex |-> 0, sem |-> 1, fused |-> 0],
                               [lex |-> 1, sem |-> 2, fused |-> 0]},
                   fused |-> {[lex |-> 0, sem |-> 0, fused |-> 1], [lex |-> 0, sem |-> 0, fused |-> 2]}]
        chunks == {[src |-> "big.md", ord |-> i] : i \in 1..(MaxHits - 1)}
                      \cup {[src |-> "small.md", ord |-> 1]}
    IN  UNION {{[i \in 1..n |-> [src |-> cs[i].src, ord |-> cs[i].ord, lex |-> sc[i].lex,
                                 sem |-> sc[i].sem, fused |-> sc[i].fused]] :
                    cs \in {f \in [1..n -> chunks] : \A i, j \in 1..n : f[i] = f[j] => i = j},
                    sc \in UNION {[1..n -> scores[kind]] : kind \in DOMAIN scores}} :
               n \in 0..MaxHits}

\* Service.Search from the candidate list to the items, for documents without date,
\* boosted doc type or risk flags (freshness, boost and penalty terms vanish) and
\* default filters: [err, items], the items with their final score. Normalised scores
\* are in halves, weights in hundredths.
SearchOrdered(r) ==
    LET profile == ResolveProfile(r.profileID, "default_research")
        topK == IF r.topK <= 0 THEN 20 ELSE IF r.topK > 100 THEN 100 ELSE r.topK
        passed == SelectSeq(r.hits, LAMBDA h : ~(h.lex <= 0 /\ h.sem <= 0 /\ h.fused <= 0))
        hasFused == Len(passed) > 0 /\ passed[1].fused > 0
        byRaw == SliceStable(passed, IF hasFused THEN "fused" ELSE "lex")
        topN == IF profile.bm25TopN <= 0 \/ profile.bm25TopN > Len(byRaw)
                THEN Len(byRaw) ELSE profile.bm25TopN
        cands == SubSeq(byRaw, 1, topN)
        min(f) == CHOOSE x \in {cands[i][f] : i \in 1..Len(cands)} :
                      \A i \in 1..Len(cands) : x <= cands[i][f]
        max(f) == CHOOSE x \in {cands[i][f] : i \in 1..Len(cands)} :
                      \A i \in 1..Len(cands) : x >= cands[i][f]
        norm(c, f) == IF max(f) > min(f) THEN (2 * (c[f] - min(f))) \div (max(f) - min(f)) ELSE 2
        bmNorm(c) == IF hasFused THEN norm(c, "fused")
                     ELSE IF r.mode = "semantic-only" THEN 0 ELSE norm(c, "lex")
        cosNorm(c) == IF hasFused THEN norm(c, "fused")
                      ELSE IF r.mode = "keyword-only" THEN 0 ELSE norm(c, "sem")
        scored == [i \in 1..Len(cands) |->
                      [src |-> cands[i].src, ord |-> cands[i].ord,
                       final |-> profile.weightBM25 * bmNorm(cands[i])
                                   + profile.weightCosine * cosNorm(cands[i])]]
        sorted == SliceStable(scored, "final")
        chosen == capLoop(sorted, <<>>, topK, profile.perSourceCap)
    IN  [err |-> "",
         items |-> [i \in 1..Len(chosen) |->
                       CHOOSE c \in {sorted[j] : j \in 1..Len(sorted)} :
                           c.src = chosen[i].src /\ c.ord = chosen[i].ord]]

\* One Search call over the hits as the provider ordered them.
SvcSearchOrdered(hits, mode, topK, profileID) ==
    /\ req = None
    /\ req' = Some([hits |-> hits, mode |-> mode, topK |-> topK, profileID |-> profileID])
    /\ res' = Some(SearchOrdered(req'[1]))
    /\ UNCHANGED <<pvars, avars, wvars, tvars, evars, svars, lvars>>

ONext ==
    \/ /\ req = None
       /\ \E hits \in HitSeqs, mode \in {"hybrid", "keyword-only"}, topK \in {0, 1, 2},
             profileID \in {"", "decisions_recent"} :
               /\ mode = "keyword-only" => \A i \in 1..Len(hits) : hits[i].sem = 0 /\ hits[i].fused = 0
               /\ SvcSearchOrdered(hits, mode, topK, profileID)
    \/ SvcDone

\* Service.Search over any hit list in any order.
SpecOrder == InitAdm /\ [][ONext]_vars

\* ---------------------------------------------------------------------------------
\* The Store in detail: what SaveIndex and SaveVectors write and what the loads read.

\* encoding/json writes a string coerced to valid UTF-8: every invalid byte becomes
\* U+FFFD. "Caf<E9>" stands for a Latin-1 heading, its last byte no valid UTF-8.
ToValidUTF8(str) == IF str = "Caf<E9>" THEN "Caf<FFFD>" ELSE str

\* json.Marshal of an IndexedChunk: the fields tagged omitempty are left out when
\* empty (Tags, a slice: when its length is 0, nil or not).
MarshalChunk(c) ==
    [k \in {"source_path", "chunk_ordinal", "heading_path", "text"}
           \cup (IF Len(Elems(c.tags)) > 0 THEN {"tags"} ELSE {}) |->
        CASE k = "source_path" -> ToValidUTF8(c.src)
          [] k = "chunk_ordinal" -> c.ord
          [] k = "heading_path" -> ToValidUTF8(c.heading)
          [] k = "text" -> c.text
          [] OTHER -> Elems(c.tags)]

\* json.Unmarshal into a zero IndexedChunk: an absent key leaves the field nil.
UnmarshalChunk(doc) ==
    [src |-> doc["source_path"], ord |-> doc["chunk_ordinal"],
     heading |-> doc["heading_path"], text |-> doc["text"],
     tags |-> IF "tags" \in DOMAIN doc THEN Some(doc["tags"]) ELSE None]

\* SaveIndex: the chunks bucket is deleted and created anew, then filled under the
\* big-endian keys 0, 1, ...
RecreateChunks(bucket, docs) == docs

\* Store.SaveIndex, one bbolt transaction: the info under meta/info, the chunks bucket.
SaveIndexTx(d, info, chunks) ==
    [d EXCEPT !.info = Some(info),
              !.chunks = RecreateChunks(@, [i \in 1..Len(chunks) |-> MarshalChunk(chunks[i])])]

\* Store.LoadIndexInfo: None is ErrIndexNotBuilt.
LoadIndexInfo(d) == d.info

\* Store.LoadChunks on the database: ForEach in key order.
LoadChunksTx(d) == [i \in 1..Len(d.chunks) |-> UnmarshalChunk(d.chunks[i])]

vecMagic == 1180058448
vecVersion == 1
vecHeaderSize == 16
vecTrailerSize == 4

\* The bytes of a file of 32-bit words.
Bytes(words) == 4 * Len(words)

\* Stands for crc32.Checksum with the Castagnoli table: a checksum of the words.
RECURSIVE Checksum(_)
Checksum(words) ==
    IF words = <<>> THEN 17
    ELSE (Checksum(SubSeq(words, 1, Len(words) - 1)) * 31 + words[Len(words)] + 1) % 65521

\* The payload: every vector's float32 bits, one after the other.
RECURSIVE Flatten(_)
Flatten(vectors) ==
    IF vectors = <<>> THEN <<>> ELSE vectors[1] \o Flatten(Tail(vectors))

\* SaveVectors, the buffer it writes: header (magic, version, count, dims of the first
\* vector), payload, CRC of header and payload.
EncodeVectors(vectors) ==
    LET body == <<vecMagic, vecVersion, Len(vectors), Len(vectors[1])>> \o Flatten(vectors)
    IN  Append(body, Checksum(body))

\* Store.SaveVectors that returned nil: no vectors remove the file.
WriteVectors(vectors) == IF Len(vectors) = 0 THEN None ELSE Some(EncodeVectors(vectors))

\* The checks LoadVectors and ForEachVector make before they read a vector: "" or the
\* error. n and dims are the header's count and dims.
VectorFileError(words) ==
    IF Bytes(words) < vecHeaderSize + vecTrailerSize THEN "short"
    ELSE IF words[1] # vecMagic THEN "magic"
    ELSE IF words[2] # vecVersion THEN "version"
    ELSE LET n == words[3]
             dims == words[4]
         IN  IF Bytes(words) < vecHeaderSize + n * dims * 4 + vecTrailerSize THEN "truncated"
             ELSE IF words[4 + n * dims + 1] # Checksum(SubSeq(words, 1, 4 + n * dims))
             THEN "checksum"
             ELSE ""

\* The vectors of a file that passed the checks.
DecodeVectors(words) ==
    [i \in 1..words[3] |-> SubSeq(words, 4 + (i - 1) * words[4] + 1, 4 + i * words[4])]

\* Store.LoadVectors: [err, v]; a missing file is nil, nil.
LoadVectorsFile(f) ==
    IF f = None THEN [err |-> "", v |-> <<>>]
    ELSE IF VectorFileError(f[1]) # "" THEN [err |-> VectorFileError(f[1]), v |-> <<>>]
    ELSE [err |-> "", v |-> DecodeVectors(f[1])]

\* Store.ForEachVector: [err, v], v the vectors handed to fn, which returns nil.
ForEachVectorFile(f) ==
    IF f = None THEN [err |-> "", v |-> <<>>]
    ELSE IF VectorFileError(f[1]) # "" THEN [err |-> VectorFileError(f[1]), v |-> <<>>]
    ELSE [err |-> "", v |-> DecodeVectors(f[1])]

\* The chunks a caller saves: chunk i of a.md, under a heading that is valid UTF-8 or
\* not, with no tags (normalizeTags returns an empty, non-nil slice) or one.
StoreChunks ==
    {[src |-> "a.md", ord |-> 0, heading |-> h, text |-> "t", tags |-> Some(t)] :
        h \in {"Intro", "Caf<E9>"}, t \in {<<>>, <<"x">>}}

ChunkLists == UNION {[1..n -> StoreChunks] : n \in 0..MaxStored}

\* The vectors a caller saves: n vectors of d floats each, (i + g) the bits of the
\* floats of vector i.
VectorLists ==
    {[i \in 1..n |-> [j \in 1..d |-> i + g]] : n \in 0..MaxStored, d \in 1..2, g \in 0..1}

\* What is left of vectors.bin when os.WriteFile fails after O_TRUNC: a prefix.
TornPrefixes(words) == {<<>>, SubSeq(words, 1, 4)}

\* Store.SaveIndex(info, chunks): the transaction commits or leaves the database alone.
StSaveIndex(chunks, ok) ==
    /\ db' = IF ok THEN SaveIndexTx(db, [total |-> Len(chunks)], chunks) ELSE db
    /\ kept' = IF ok THEN [kept EXCEPT !.info = Some([total |-> Len(chunks)]), !.chunks = chunks]
               ELSE kept
    /\ got' = None
    /\ UNCHANGED <<pvars, avars, wvars, tvars, evars, rvars, lvars, vf>>

\* Store.SaveVectors(vectors): written; or failed with the file untouched.
StSaveVectors(vectors, ok) ==
    /\ ~ok => Len(vectors) > 0
    /\ vf' = IF ok THEN WriteVectors(vectors) ELSE vf
    /\ kept' = IF ok THEN [kept EXCEPT !.vectors = vectors] ELSE kept
    /\ got' = None
    /\ UNCHANGED <<pvars, avars, wvars, tvars, evars, rvars, lvars, db>>

\* Store.SaveVectors(vectors) failed inside os.WriteFile, the file already truncated.
StSaveVectorsTorn(vectors, prefix) ==
    /\ Len(vectors) > 0
    /\ prefix \in TornPrefixes(EncodeVectors(vectors))
    /\ vf' = Some(prefix)
    /\ got' = None
    /\ UNCHANGED <<pvars, avars, wvars, tvars, evars, rvars, lvars, db, kept>>

\* A fresh Store instance on the directory loads everything.
StReopen ==
    /\ got = None
    /\ got' = Some([info |-> LoadIndexInfo(db), chunks |-> LoadChunksTx(db),
                    vectors |-> LoadVectorsFile(vf), each |-> ForEachVectorFile(vf)])
    /\ UNCHANGED <<pvars, avars, wvars, tvars, evars, rvars, lvars, db, vf, kept>>

SNext ==
    \/ \E chunks \in ChunkLists, ok \in BOOLEAN : StSaveIndex(chunks, ok)
    \/ \E vectors \in VectorLists, ok \in BOOLEAN : StSaveVectors(vectors, ok)
    \/ \E vectors \in VectorLists \ {<<>>} :
          \E prefix \in TornPrefixes(EncodeVectors(vectors)) : StSaveVectorsTorn(vectors, prefix)
    \/ StReopen

\* A Store under any sequence of SaveIndex and SaveVectors calls, reopened at will.
SpecStore == Init /\ [][SNext]_vars

\* What can happen to vectors.bin behind the Store's back: a field of the header, a
\* float of the payload or the CRC changed, the file cut short, bytes appended.
Damages == {"magic", "version", "count+", "count-", "dims+", "dims-", "payload", "crc",
            "cut", "append"}

Damage(words, kind) ==
    CASE kind = "magic" -> [words EXCEPT ![1] = @ + 1]
      [] kind = "version" -> [words EXCEPT ![2] = @ + 1]
      [] kind = "count+" -> [words EXCEPT ![3] = @ + 1]
      [] kind = "count-" -> [words EXCEPT ![3] = @ - 1]
      [] kind = "dims+" -> [words EXCEPT ![4] = @ + 1]
      [] kind = "dims-" -> [words EXCEPT ![4] = @ - 1]
      [] kind = "payload" -> [words EXCEPT ![5] = @ + 1]
      [] kind = "crc" -> [words EXCEPT ![Len(words)] = (@ + 1) % 65521]
      [] kind = "cut" -> SubSeq(words, 1, Len(words) - 1)
      [] OTHER -> Append(words, 0)

\* The file SaveVectors wrote is damaged, once.
StDamage(kind) ==
    /\ kept.vectors # <<>>
    /\ vf = Some(EncodeVectors(kept.vectors))
    /\ vf' = Some(Damage(vf[1], kind))
    /\ got' = None
    /\ UNCHANGED <<pvars, avars, wvars, tvars, evars, rvars, lvars, db, kept>>

DNext ==
    \/ SNext
    \/ \E kind \in Damages : StDamage(kind)

\* A Store whose vector file may be damaged between a save and the next load.
SpecDamage == Init /\ [][DNext]_vars

\* Two chunk lists are the same, field for field, a nil slice and an empty one alike.
SameChunks(a, b) ==
    /\ Len(a) = Len(b)
    /\ \A i \in 1..Len(a) :
        /\ a[i].src = b[i].src /\ a[i].ord = b[i].ord /\ a[i].heading = b[i].heading
        /\ a[i].text = b[i].text /\ Elems(a[i].tags) = Elems(b[i].tags)

\* C17: what a fresh instance loads is the info, the chunk list and the vectors of the
\* last SaveIndex and SaveVectors that returned nil, and nothing besides.
C17_RoundTrip ==
    got # None =>
        /\ got[1].info = kept.info
        /\ SameChunks(got[1].chunks, kept.chunks)
        /\ got[1].vectors = [err |-> "", v |-> kept.vectors]

\* The loop goroutine runs whenever a case of the select it stands at is ready, and a
\* worker's result, once sent, is received; nothing makes a Flush worker finish writing.
LoopFair ==
    /\ WF_vars(WShutdown /\ UNCHANGED <<tvars, evars, svars, rvars, lvars>>)
    /\ WF_vars(WFlushDone /\ UNCHANGED <<tvars, evars, svars, rvars, lvars>>)
    /\ WF_vars(WFlushTimeout /\ UNCHANGED <<tvars, evars, svars, rvars, lvars>>)

\* The watcher under a fair scheduler of its loop goroutine.
SpecWFair == Init /\ [][WNext]_vars /\ LoopFair

\* C15: once the watcher's context is cancelled, its loop returns (and Stop with it),
\* whether or not the Flush worker ever finishes.
C15_StopReturns == (wctx = "cancelled") ~> (wpc = "stopped")

\* The file's magic, version, byte length (16 + N*D*4 + 4 for the count N and dims D
\* of its header) or CRC32-C, the word after the payload, does not match.
Mismatch(words) ==
    \/ Bytes(words) < vecHeaderSize + vecTrailerSize
    \/ words[1] # vecMagic
    \/ words[2] # vecVersion
    \/ Bytes(words) # vecHeaderSize + words[3] * words[4] * 4 + vecTrailerSize
    \/ words[Len(words)] # Checksum(SubSeq(words, 1, Len(words) - 1))

\* C18: LoadVectors and ForEachVector return a corruption error and deliver no vector
\* whenever the vector file's magic, version, byte length or CRC32-C does not match.
C18_MismatchIsCorrupt ==
    (got # None /\ vf # None /\ Mismatch(vf[1])) =>
        /\ got[1].vectors.err # "" /\ got[1].vectors.v = <<>>
        /\ got[1].each.err # "" /\ got[1].each.v = <<>>

\* The items of the result whose source path is src.
ItemsOf(src) == {i \in 1..Len(res[1].items) : res[1].items[i].src = src}

\* C19: no source path occurs in the items of a Search result more often than the
\* profile's per_source_cap.
C19_PerSourceCap ==
    (req # None /\ res # None) =>
        \A src \in KbSources :
            Cardinality(ItemsOf(src)) <= ResolveProfile(req[1].profileID, "default_research").perSourceCap

\* The cap cut: more candidates of big.md than the cap, room left under top_k, and
\* exactly perSourceCap items of big.md.
C19_Witness ==
    /\ req # None /\ res # None /\ res[1].err = ""
    /\ Cardinality({h \in Candidates(req[1]) : h.src = "big.md"})
         > ResolveProfile(req[1].profileID, "default_research").perSourceCap
    /\ Cardinality(ItemsOf("big.md")) = ResolveProfile(req[1].profileID, "default_research").perSourceCap
    /\ Cardinality(ItemsOf("small.md")) = 1

\* Chunk c is an item of the result.
InItems(c) == \E i \in 1..Len(res[1].items) : res[1].items[i] = c

\* Chunk c matches the query and passes the filters other than allow_restricted.
Eligible(c) ==
    /\ \E h \in req[1].hits : h.src = c.src /\ h.ord = c.ord /\ h.lex > 0
    /\ Len(req[1].filters.confidentialityAllow) > 0 =>
        \E i \in 1..Len(req[1].filters.confidentialityAllow) :
            EqualFold(TrimSpace(req[1].filters.confidentialityAllow[i]), req[1].confidentiality[c.src])

\* The chunks of the restricted documents.
Restricted == {c \in KbChunks : req[1].confidentiality[c.src] = "restricted"}

\* With default filters no item comes from a restricted document.
DefaultExcludes ==
    req[1].filters = [allowRestricted |-> FALSE, confidentialityAllow |-> <<>>] =>
        \A c \in Restricted : ~InItems(c)

\* The ranking left chunk c no room: top_k items, or per_source_cap items of its source.
NoRoom(c) ==
    \/ Len(res[1].items) >= (IF req[1].topK <= 0 THEN 20 ELSE req[1].topK)
    \/ Cardinality(ItemsOf(c.src)) >= ResolveProfile(req[1].profileID, "default_research").perSourceCap

Reordered(perm) == [req[1] EXCEPT !.hits = [i \in 1..Len(req[1].hits) |-> req[1].hits[perm[i]]]]

\* The items stand in the order final score descending, source path ascending,
\* chunk ordinal ascending.
ItemsInOrder ==
    \A i \in 1..(Len(res[1].items) - 1) :
        LET a == res[1].items[i]
            b == res[1].items[i + 1]
        IN  \/ a.final > b.final
            \/ a.final = b.final /\ a.src = "big.md" /\ b.src = "small.md"
            \/ a.final = b.final /\ a.src = b.src /\ a.ord < b.ord

\* C21: the items of a Search are ordered by final score descending, then source path
\* and chunk ordinal ascending, and are the same sequence for every order in which
\* the provider may return the same hits.
C21_Deterministic ==
    (req # None /\ res # None) =>
        /\ ItemsInOrder
        /\ \A perm \in Permutations(1..Len(req[1].hits)) :
                SearchOrdered(Reordered(perm)) = res[1]

\* Two items tie on the final score and stand in source path and ordinal order, the
\* provider having returned their hits the other way round.
C21_Witness ==
    /\ req # None /\ res # None
    /\ \E i \in 1..(Len(res[1].items) - 1) :
        /\ res[1].items[i].final = res[1].items[i + 1].final
        /\ \E j, k \in 1..Len(req[1].hits) :
            /\ j > k
            /\ req[1].hits[j].src = res[1].items[i].src /\ req[1].hits[j].ord = res[1].items[i].ord
            /\ req[1].hits[k].src = res[1].items[i + 1].src
            /\ req[1].hits[k].ord = res[1].items[i + 1].ord

\* The chunks of the current index: the texts the BM25 index was built over, chunk i
\* of a.md at position i.
Indexed == ChunksOf(Elems(p.txtIdx))

\* A Build or BuildInMemory has just returned nil.
Rebuilt == last.op \in {"Build", "BuildInMemory"} /\ last.err = "" /\ call.op = "idle"

MaxText == 4

\* The largest soft or hard limit.
MaxLimit == 3

Runes == {"a", "E", ".", " ", "\n"}

Texts == UNION {[1..n -> Runes] : n \in 0..MaxText}

\* The bytes of the UTF-8 encoding of a rune.
utf8Len(r) == IF r = "E" THEN 2 ELSE 1

\* Go's len of a string: its length in bytes.
RECURSIVE len(_)
len(text) == IF text = <<>> THEN 0 ELSE utf8Len(Head(text)) + len(Tail(text))

isSpace(r) == r \in {" ", "\n"}

RECURSIVE TrimLeft(_)
TrimLeft(text) ==
    IF text # <<>> /\ isSpace(Head(text)) THEN TrimLeft(Tail(text)) ELSE text

RECURSIVE TrimRight(_)
TrimRight(text) ==
    IF text # <<>> /\ isSpace(text[Len(text)])
    THEN TrimRight(SubSeq(text, 1, Len(text) - 1))
    ELSE text

\* strings.TrimSpace over a text.
TrimSpaceText(text) == TrimRight(TrimLeft(text))

\* strings.Split(content, "\n").
RECURSIVE Split(_)
Split(text) ==
    IF \A i \in 1..Len(text) : text[i] # "\n"
    THEN <<text>>
    ELSE LET i == CHOOSE i \in 1..Len(text) :
                      text[i] = "\n" /\ \A j \in 1..(i - 1) : text[j] # "\n"
         IN  <<SubSeq(text, 1, i - 1)>> \o Split(SubSeq(text, i + 1, Len(text)))

\* One round of the loop of flush over a non-empty text: the chunk text it appends and
\* the text it leaves for the next round. The limits count runes.
flushPart(text, softLimit, hardLimit) ==
    LET runes == text
        runeSoft == IF softLimit > Len(runes) THEN Len(runes) ELSE softLimit
        runeHard == IF hardLimit > Len(runes) THEN Len(runes) ELSE hardLimit
        limit0 == IF Len(runes) > runeHard THEN runeHard
                  ELSE IF Len(runes) <= runeSoft THEN Len(runes)
                  ELSE runeSoft
        \* runes[i] of the code is the rune at position i + 1 here
        breaks == {i \in (limit0 \div 2)..(limit0 - 1) : runes[i + 1] \in {".", "!", "?"}}
        bestBreak == IF limit0 < Len(runes) /\ breaks # {}
                     THEN (CHOOSE i \in breaks : \A j \in breaks : j <= i) + 1
                     ELSE -1
        limit == IF bestBreak > 0 THEN bestBreak ELSE limit0
    IN  [part |-> TrimSpaceText(SubSeq(runes, 1, limit)),
         rest |-> IF limit >= Len(runes) THEN <<>>
                  ELSE TrimSpaceText(SubSeq(runes, limit + 1, Len(runes)))]

RECURSIVE flushLoop(_, _, _)
flushLoop(text, softLimit, hardLimit) ==
    IF len(text) > 0
    THEN LET round == flushPart(text, softLimit, hardLimit)
         IN  <<round.part>> \o flushLoop(round.rest, softLimit, hardLimit)
    ELSE <<>>

\* flush: the chunk texts of the buffered lines.
flush(buf, softLimit, hardLimit) == flushLoop(TrimSpaceText(buf), softLimit, hardLimit)

\* The loop over the lines: a blank line flushes the buffer, any other line joins it.
\* (No line of these texts is a heading.)
RECURSIVE lineLoop(_, _, _, _)
lineLoop(lines, buf, softLimit, hardLimit) ==
    IF lines = <<>>
    THEN flush(buf, softLimit, hardLimit)
    ELSE IF TrimSpaceText(Head(lines)) = <<>>
    THEN flush(buf, softLimit, hardLimit) \o lineLoop(Tail(lines), <<>>, softLimit, hardLimit)
    ELSE lineLoop(Tail(lines),
                  IF len(buf) > 0 THEN buf \o <<"\n">> \o Head(lines) ELSE Head(lines),
                  softLimit, hardLimit)

splitMarkdownChunks(content, softLimit, hardLimit) ==
    lineLoop(Split(content), <<>>,
             IF softLimit <= 0 THEN 4096 ELSE softLimit,
             IF hardLimit <= 0 THEN 8192 ELSE hardLimit)

\* A document body is chunked.
Chunk(content, softLimit, hardLimit) ==
    /\ req = None
    /\ req' = Some([content |-> content, softLimit |-> softLimit, hardLimit |-> hardLimit])
    /\ res' = Some(splitMarkdownChunks(content, softLimit, hardLimit))
    /\ UNCHANGED <<pvars, avars, wvars, tvars, evars, svars, lvars>>

\* The chunks are taken over by the caller.
ChunkDone ==
    /\ req # None
    /\ req' = None /\ res' = None
    /\ UNCHANGED <<pvars, avars, wvars, tvars, evars, svars, lvars>>

CNext ==
    \/ /\ req = None
       /\ \E content \in Texts, softLimit \in 1..MaxLimit, hardLimit \in 1..MaxLimit :
            Chunk(content, softLimit, hardLimit)
    \/ ChunkDone

SpecChunk == InitAdm /\ [][CNext]_vars

\* Every round of the loop of flush leaves a shorter text than it was given.
LoopProgress ==
    \A k \in 1..Len(req[1].content) :
        LET text == TrimSpaceText(SubSeq(req[1].content, k, Len(req[1].content)))
        IN  text # <<>> =>
                Len(flushPart(text, req[1].softLimit, req[1].hardLimit).rest) < Len(text)

EmbedsQuery ==
    LET l == ensureLoaded(p, st)
    IN  l.err = "" /\ l.p.indexReady /\ l.p.hasVecs /\ l.p.embedder # 0

\* C24: a Search whose query embedding fails returns nil error, the hits of the
\* keyword-only search and one semantic_fallback_to_keyword warning in its IndexInfo;
\* a Search that calls no embedder is the same whether or not the embedder works; and
\* a Build or BuildInMemory whose embedder fails returns an error.
C24_EmbedFailureDegrades ==
    call.op = "idle" =>
        /\ \A qt \in Paras :
            LET failed == Search(p, st, qt, FALSE, FALSE)
                keyword == Search(p, st, qt, TRUE, TRUE)
            IN  IF EmbedsQuery
                THEN /\ failed.err = ""
                     /\ failed.hits = keyword.hits
                     /\ failed.warnings = <<"semantic_fallback_to_keyword">>
                     /\ keyword.warnings = <<>>
                ELSE failed = Search(p, st, qt, FALSE, TRUE)
        /\ \A chunks \in KbInputs :
            CallsEmbedder(p, st, chunks) =>
                embedAndBuild(p, st, chunks, InfoOf(chunks), FALSE).err

\* A hybrid Search whose query embedding failed has returned nil over an index that
\* holds a chunk matching the query.
C24_Witness ==
    /\ call.op = "idle" /\ last.op = "Search" /\ last.err = ""
    /\ EmbedsQuery /\ p.indexReady
    /\ \E qt \in Paras : Search(p, st, qt, FALSE, FALSE).hits # {}

\* The info, the BM25 index, the resident chunk buffer and the vector index of the
\* provider are those of one completed build: the info counts the indexed chunks, the
\* buffer holds the indexed texts, and the vector index holds one vector per chunk.
OneBuild(pr) ==
    /\ pr.info # None => pr.info[1].total = Len(Elems(pr.txtIdx))
    /\ (pr.chunks # None /\ pr.txtIdx # None) =>
            pr.txtIdx[1] = [i \in 1..Len(pr.chunks[1]) |-> pr.chunks[1][i].text]
    /\ pr.vecIdx # None => Len(pr.vecIdx[1]) = Len(Elems(pr.txtIdx))

\* C25: the index state is changed only by calls that hold the exclusive lock (every
\* action of the provider is one), and the state a Search or FetchChunk that returned
\* nil has read under the shared lock is that of one completed build: the info, the
\* in-memory indexes and the resident chunk buffer belong together.
C25_OneBuildObserved ==
    (call.op = "idle" /\ last.op \in {"Search", "FetchChunk"} /\ last.err = "") => OneBuild(p)

\* ---------------------------------------------------------------------------------
\* The provider's lock: one Build or BuildInMemory call and MaxReaders Search or
\* FetchChunk calls on one provider, each a goroutine, interleaved at the lock
\* operations of p.mu and at the calls made while it is held.

\* The store a Build of the chunks by a provider with embedder 1 leaves behind.
BuiltStore(chunks) ==
    LET b == embedAndBuild(NewProvider(1), EmptyStore, chunks, InfoOf(chunks), TRUE).p
    IN  SaveVectors(SaveIndex(EmptyStore, b.info[1], b.chunks), b.vectors)

\* A provider opened on a new store or on the store of an earlier Build.
InitLock ==
    /\ st \in {EmptyStore} \cup {BuiltStore(chunks) : chunks \in KbInputs}
    /\ p \in {NewProvider(e) : e \in Embedders}
    /\ call = Idle
    /\ last = NoReturn
    /\ hist = [idxOnly |-> FALSE, recov |-> "no"]
    /\ AInit /\ WInit /\ TInit /\ SInit /\ RInit /\ LInit /\ shorter = TRUE

Unlocked == [w |-> 0, r |-> {}]

\* The goroutine of the build, as the writer of p.mu (the readers are 1..MaxReaders).
Builder == MaxReaders + 1

\* Build, BuildInMemory: p.mu.Lock(), then embedAndBuild up to its first Embed call,
\* or to its end when no chunk has to be embedded.
LkBuild(op, chunks) ==
    /\ bld.pc = "idle"
    /\ mu = Unlocked
    /\ IF CallsEmbedder(p, st, chunks)
       THEN /\ mu' = [mu EXCEPT !.w = Builder]
            /\ bld' = [bld EXCEPT !.pc = "embed", !.op = op, !.chunks = chunks]
            /\ p' = [p EXCEPT !.info = Some(InfoOf(chunks)), !.indexReady = FALSE, !.hasVecs = FALSE]
       ELSE LET r == embedAndBuild(p, st, chunks, InfoOf(chunks), TRUE)
            IN  /\ p' = r.p
                /\ mu' = IF r.err THEN mu ELSE [mu EXCEPT !.w = Builder]
                /\ bld' = [bld EXCEPT !.pc = IF r.err THEN "done" ELSE "sync", !.op = op,
                                      !.chunks = chunks, !.err = IF r.err THEN "embed" ELSE ""]
    /\ UNCHANGED <<st, call, last, hist, rd, lk>>

\* embedAndBuild: p.embedder.Embed returns, with the lock held all the while; on an
\* error the deferred Unlock runs.
LkEmbedReturns(embedOK) ==
    /\ bld.pc = "embed"
    /\ LET r == embedAndBuild(p, st, bld.chunks, InfoOf(bld.chunks), embedOK)
       IN  /\ p' = r.p
           /\ mu' = IF r.err THEN Unlocked ELSE mu
           /\ bld' = [bld EXCEPT !.pc = IF r.err THEN "done" ELSE "sync",
                                 !.err = IF r.err THEN "embed" ELSE ""]
    /\ UNCHANGED <<st, call, last, hist, rd, lk>>

\* Build: flushLocked (SaveIndex, SaveVectors, SetDirty(false), each synced to disk)
\* and the release of the buffers; BuildInMemory: p.dirty = true and
\* store.SetDirty(true); then the deferred Unlock. A failed write changes nothing.
LkSync(ok) ==
    /\ bld.pc = "sync"
    /\ IF bld.op = "Build"
       THEN /\ st' = IF ok THEN SetDirty(SaveVectors(SaveIndex(st, p.info[1], p.chunks), p.vectors), FALSE)
                     ELSE st
            /\ p' = IF ok THEN ReleaseBuffers([p EXCEPT !.dirty = FALSE]) ELSE p
       ELSE /\ st' = IF ok THEN SetDirty(st, TRUE) ELSE st
            /\ p' = [p EXCEPT !.dirty = TRUE]
    /\ mu' = Unlocked
    /\ bld' = [bld EXCEPT !.pc = "done", !.err = IF ok THEN "" ELSE "io"]
    /\ UNCHANGED <<call, last, hist, rd, lk>>

\* ensureLoaded, fast path: RLock, read p.indexReady, RUnlock.
LkCheck(r) ==
    /\ rd[r].pc = "idle"
    /\ mu.w = 0
    /\ rd' = [rd EXCEPT ![r].pc = IF p.indexReady THEN "rlock" ELSE "lock"]
    /\ UNCHANGED <<pvars, mu, bld, lk>>

\* ensureLoaded, slow path: p.mu.Lock().
LkLock(r) ==
    /\ rd[r].pc = "lock"
    /\ mu = Unlocked
    /\ mu' = [mu EXCEPT !.w = r]
    /\ rd' = [rd EXCEPT ![r].pc = "slow"]
    /\ lk' = [lk EXCEPT !.slow = @ + 1]
    /\ UNCHANGED <<pvars, bld>>

\* ensureLoaded, slow path under the lock: the second look at p.indexReady, the load
\* from the store, the deferred Unlock.
LkLoad(r) ==
    /\ rd[r].pc = "slow"
    /\ LET l == ensureLoaded(p, st)
       IN  /\ p' = l.p
           /\ rd' = [rd EXCEPT ![r].pc = IF l.err = "" THEN "rlock" ELSE "done", ![r].err = l.err]
           /\ lk' = [lk EXCEPT !.reads = IF l.read THEN @ + 1 ELSE @,
                               !.loads = IF l.load THEN @ + 1 ELSE @]
    /\ mu' = Unlocked
    /\ UNCHANGED <<st, call, last, hist, bld>>

\* Search, FetchChunk: p.mu.RLock().
LkRLock(r) ==
    /\ rd[r].pc = "rlock"
    /\ mu.w = 0
    /\ mu' = [mu EXCEPT !.r = @ \cup {r}]
    /\ rd' = [rd EXCEPT ![r].pc = "read"]
    /\ UNCHANGED <<pvars, bld, lk>>

\* Search: the search under the shared lock, and the deferred RUnlock.
LkSearch(r, qt, keywordOnly) ==
    /\ rd[r].pc = "read"
    /\ rd' = [rd EXCEPT ![r].pc = "done", ![r].ready = p.indexReady,
                        ![r].err = searchLoaded(p, st, qt, keywordOnly, TRUE).err]
    /\ mu' = [mu EXCEPT !.r = @ \ {r}]
    /\ UNCHANGED <<pvars, bld, lk>>

\* FetchChunk: the lookup under the shared lock, and the deferred RUnlock.
LkFetchChunk(r, ord) ==
    /\ rd[r].pc = "read"
    /\ rd' = [rd EXCEPT ![r].pc = "done", ![r].ready = p.indexReady,
                        ![r].err = IF fetchLoaded(p, st, "a.md", ord) = None THEN "notexist" ELSE ""]
    /\ mu' = [mu EXCEPT !.r = @ \ {r}]
    /\ UNCHANGED <<pvars, bld, lk>>

LNext ==
    \/ \E op \in {"Build", "BuildInMemory"}, chunks \in KbInputs :
            LkBuild(op, chunks) /\ UNCHANGED <<avars, wvars, tvars, evars, svars, rvars>>
    \/ \E embedOK \in BOOLEAN : LkEmbedReturns(embedOK) /\ UNCHANGED <<avars, wvars, tvars, evars, svars, rvars>>
    \/ \E ok \in BOOLEAN : LkSync(ok) /\ UNCHANGED <<avars, wvars, tvars, evars, svars, rvars>>
    \/ \E r \in Readers : LkCheck(r) /\ UNCHANGED <<avars, wvars, tvars, evars, svars, rvars>>
    \/ \E r \in Readers : LkLock(r) /\ UNCHANGED <<avars, wvars, tvars, evars, svars, rvars>>
    \/ \E r \in Readers : LkLoad(r) /\ UNCHANGED <<avars, wvars, tvars, evars, svars, rvars>>
    \/ \E r \in Readers : LkRLock(r) /\ UNCHANGED <<avars, wvars, tvars, evars, svars, rvars>>
    \/ \E r \in Readers, qt \in Paras, keywordOnly \in BOOLEAN :
            LkSearch(r, qt, keywordOnly) /\ UNCHANGED <<avars, wvars, tvars, evars, svars, rvars>>
    \/ \E r \in Readers, ord \in 1..MaxPara :
            LkFetchChunk(r, ord) /\ UNCHANGED <<avars, wvars, tvars, evars, svars, rvars>>

\* One build and MaxReaders readers racing on a provider.
SpecLock == InitLock /\ [][LNext]_vars

\* C26: p.mu is not held while an Embed call of a build, or a synced store write of a
\* build, is in progress.
C26_LockFreeAcrossEmbedAndSync ==
    bld.pc \in {"embed", "sync"} => mu.w # Builder

\* The calls race on a provider that no build has touched, over a clean store that
\* holds chunks.
RaceOnStore == bld.pc = "idle" /\ ~IsDirty(st) /\ st.info # None /\ st.info[1].total > 0

\* C27: a call holds the exclusive lock only in the slow path of ensureLoaded, having
\* released the shared lock before, and never both locks; when Search and FetchChunk
\* calls race on an unloaded provider over a clean, non-empty store, the store is
\* streamed into memory once, and every call past ensureLoaded finds the index loaded
\* and proceeds on it.
C27_LoadedOnce ==
    /\ \A r \in Readers : (mu.w = r <=> rd[r].pc = "slow") /\ (r \in mu.r <=> rd[r].pc = "read")
    /\ mu.w # 0 => mu.r = {}
    /\ RaceOnStore =>
        /\ lk.loads <= 1
        /\ \A r \in Readers :
            /\ rd[r].pc \in {"rlock", "read"} => p.indexReady /\ lk.loads = 1
            /\ rd[r].pc = "done" => rd[r].ready /\ lk.loads = 1

\* All readers took the slow path, the store was streamed once, and all have returned.
C27_Witness ==
    /\ RaceOnStore /\ lk.slow = MaxReaders /\ lk.loads = 1
    /\ \A r \in Readers : rd[r].pc = "done" /\ rd[r].ready

\* No build has touched the provider, and its store is clean and holds an IndexInfo of
\* no chunks.
EmptyIndexStored == bld.pc = "idle" /\ ~IsDirty(st) /\ st.info # None /\ st.info[1].total = 0

\* C28: once an ensureLoaded has found a clean store whose IndexInfo has total_chunks
\* 0 and returned, the provider is ready, so that the calls that follow take the fast
\* path (they find p.indexReady set and neither lock exclusively nor read the store).
C28_EmptyIndexMarkedReady ==
    (EmptyIndexStored /\ \E r \in Readers : rd[r].pc \in {"rlock", "read", "done"}) =>
        p.indexReady

\* A provider with nothing loaded stands over a clean store whose index holds one
\* vector per chunk, of a dimensionality other than the embedder's known Dims().
DimsMismatch ==
    /\ call.op = "idle" /\ ~p.indexReady /\ ~IsDirty(st)
    /\ st.info # None /\ st.info[1].total > 0
    /\ ~LoadVectors(st).err /\ Len(LoadVectors(st).v) = Len(LoadChunks(st))
    /\ Len(LoadVectors(st).v) > 0
    /\ p.embedder # 0 /\ Dims(p.embedder) > 0
    /\ \A i \in 1..Len(LoadVectors(st).v) : LoadVectors(st).v[i].dims # Dims(p.embedder)

\* The provider and the store after Build(chunks) with a working embedder and disk:
\* [p, s, err].
Rebuild(chunks) ==
    LET r == embedAndBuild(p, st, chunks, InfoOf(chunks), TRUE)
    IN  IF r.err THEN [p |-> r.p, s |-> st, err |-> TRUE]
        ELSE [p |-> ReleaseBuffers([r.p EXCEPT !.dirty = FALSE]),
              s |-> SetDirty(SaveVectors(SaveIndex(st, r.p.info[1], r.p.chunks), r.p.vectors), FALSE),
              err |-> FALSE]

\* C29: over a clean store whose vectors have another dimensionality than the
\* embedder's known Dims(), Search and FetchChunk fail with the dimension-mismatch
\* error and leave p.indexReady false; and a Build run then, with the embedder and the
\* disk working, completes, after which every stored vector has the embedder's
\* dimensionality and Search succeeds.
C29_MismatchUntilRebuild ==
    DimsMismatch =>
        /\ ensureLoaded(p, st).err = "dims" /\ ~ensureLoaded(p, st).p.indexReady
        /\ \A qt \in Paras, keywordOnly \in BOOLEAN : Search(p, st, qt, keywordOnly, TRUE).err = "dims"
        /\ \A chunks \in KbInputs :
            LET b == Rebuild(chunks)
            IN  /\ ~b.err
                /\ \A i \in 1..Len(LoadVectors(b.s).v) : LoadVectors(b.s).v[i].dims = Dims(p.embedder)
                /\ \A qt \in Paras, keywordOnly \in BOOLEAN :
                        Search(b.p, b.s, qt, keywordOnly, TRUE).err = ""

\* ---------------------------------------------------------------------------------
\* embedAndBuild: the requests it sends to the embedder.

\* The chunks of the largest document that is built.
MaxChunks == 130

\* const batchSize in embedAndBuild.
batchSize == 64

\* toEmbed: the positions of the chunks that have no cached vector, ascending.
toEmbedSeq(chunks, vecCache) ==
    SelectSeq([i \in 1..Len(chunks) |-> i], LAMBDA i : chunks[i].pid \notin DOMAIN vecCache)

\* Mutant: all texts go out in one request.
embedBatchesAtOnce(chunks, toEmbed, start) ==
    IF Len(toEmbed) = 0 THEN <<>>
    ELSE <<[j \in 1..Len(toEmbed) |-> chunks[toEmbed[j]].text]>>

\* The loop over the batches: the texts of toEmbed[start:end] per Embed call, start
\* counted from 0 as in the code.
RECURSIVE embedBatches(_, _, _)
embedBatches(chunks, toEmbed, start) ==
    IF start < Len(toEmbed)
    THEN LET end == IF start + batchSize > Len(toEmbed) THEN Len(toEmbed) ELSE start + batchSize
         IN  <<[j \in 1..(end - start) |-> chunks[toEmbed[start + j]].text]>>
                \o embedBatches(chunks, toEmbed, start + batchSize)
    ELSE <<>>

\* The Embed calls of embedAndBuild(chunks), each the texts it is handed.
EmbedRequests(pr, s, chunks) ==
    IF pr.embedder # 0 /\ Len(chunks) > 0
    THEN embedBatches(chunks, toEmbedSeq(chunks, buildVectorCache(pr, s)), 0)
    ELSE <<>>

\* The paragraphs an earlier index may hold: the first, the two around the end of the
\* first batch, and one the document no longer has.
EarlierParas == {1, batchSize + 1, batchSize + 2, MaxChunks + 1}

\* The provider and the store before the build: nothing built yet ("none"), the
\* earlier index resident after a BuildInMemory ("resident"), or in the store of an
\* earlier Build, the provider opened on it ("store").
Earlier(kind, paras) ==
    LET chunks == ChunksOf(InOrder(paras))
    IN  CASE kind = "resident" ->
                [p |-> [embedAndBuild(NewProvider(1), EmptyStore, chunks, InfoOf(chunks), TRUE).p
                            EXCEPT !.dirty = TRUE],
                 s |-> SetDirty(EmptyStore, TRUE)]
          [] kind = "store" -> [p |-> NewProvider(1), s |-> BuiltStore(chunks)]
          [] OTHER -> [p |-> NewProvider(1), s |-> EmptyStore]

\* BuildInMemory of a document of n paragraphs over an earlier index.
BatchBuild(n, kind, paras) ==
    /\ req = None
    /\ LET e == Earlier(kind, paras)
           chunks == ChunksOf([i \in 1..n |-> i])
       IN  /\ req' = Some([n |-> n, kind |-> kind, paras |-> paras])
           /\ res' = Some([requests |-> EmbedRequests(e.p, e.s, chunks),
                           p |-> embedAndBuild(e.p, e.s, chunks, InfoOf(chunks), TRUE).p])
    /\ UNCHANGED <<pvars, avars, wvars, tvars, evars, svars, lvars>>

\* The build has returned.
BatchDone ==
    /\ req # None
    /\ req' = None /\ res' = None
    /\ UNCHANGED <<pvars, avars, wvars, tvars, evars, svars, lvars>>

BNext ==
    \/ /\ req = None
       /\ \E n \in 0..MaxChunks, kind \in {"none", "resident", "store"}, paras \in SUBSET EarlierParas :
            (kind = "none" => paras = {}) /\ BatchBuild(n, kind, paras)
    \/ BatchDone

SpecBatch == InitAdm /\ [][BNext]_vars

\* The texts of all requests, in the order sent.
RECURSIVE Sent(_)
Sent(requests) == IF requests = <<>> THEN <<>> ELSE Head(requests) \o Sent(Tail(requests))

\* The paragraphs of the document that the earlier index holds a vector for.
Reused == {i \in 1..req[1].n : i \in req[1].paras}

\* C30: a build assigns every chunk whose paragraph id the earlier index state holds
\* (resident chunks and vectors, else the store) the vector held there and does not
\* send its text; the texts sent are exactly those of the other chunks, in document
\* order, in requests of at least one and at most 64 texts.
C30_ReuseAndBatch ==
    (req # None /\ res # None) =>
        /\ \A i \in Reused :
            /\ res[1].p.vectors[1][i] = Embed(i, 1)
            /\ \A k \in 1..Len(res[1].requests) :
                \A j \in 1..Len(res[1].requests[k]) : res[1].requests[k][j] # i
        /\ Sent(res[1].requests) = SelectSeq([i \in 1..req[1].n |-> i], LAMBDA i : i \notin Reused)
        /\ \A k \in 1..Len(res[1].requests) :
            Len(res[1].requests[k]) >= 1 /\ Len(res[1].requests[k]) <= 64

\* A build that reused vectors on both sides of the end of the first batch and sent
\* more than one request, the last one short.
C30_Witness ==
    /\ req # None /\ res # None
    /\ {1, batchSize + 1} \subseteq Reused
    /\ Len(res[1].requests) >= 2
    /\ Len(res[1].requests[1]) = 64
    /\ Len(res[1].requests[Len(res[1].requests)]) < 64

\* A Build, BuildInMemory or Flush has just returned nil.
Completed == call.op = "idle" /\ last.op \in {"Build", "BuildInMemory", "Flush"} /\ last.err = ""

\* C31: after a provider operation that returned nil the chunks are either resident
\* with the dirty mirror set (after BuildInMemory), or the chunk and vector buffers
\* are released, the dirty mirror is clear and the store holds every chunk of the
\* index (after Build or Flush).
C31_ResidentOrStored ==
    Completed =>
        IF last.op = "BuildInMemory"
        THEN p.chunks # None /\ p.dirty /\ p.chunks[1] = Indexed
        ELSE /\ p.chunks = None /\ p.vectors = None
             /\ ~p.dirty
             /\ p.indexReady => st.chunks = Indexed

\* ---------------------------------------------------------------------------------
\* Service.Search: the number of candidates it asks the provider for.

\* The largest top_k a request carries (the code cuts top_k at 100).
MaxTopK == 101

\* topK: req.TopK, 20 when not positive, at most 100.
effectiveTopK(reqTopK) ==
    LET topK == IF reqTopK <= 0 THEN 20 ELSE reqTopK
    IN  IF topK > 100 THEN 100 ELSE topK

\* candidateLimit, as Service.Search computes it from the profile and topK.
candidateLimit(profile, topK) ==
    LET fromProfile == IF profile.bm25TopN <= 0 THEN 200 ELSE profile.bm25TopN
        minForTopK == topK * 4
        raised == IF fromProfile < minForTopK THEN minForTopK ELSE fromProfile
    IN  IF raised > 2000 THEN 2000 ELSE raised

\* Service.Search up to its provider.Search call: what it passes as Limit.
SvcLimit(profileID, reqTopK) ==
    /\ req = None
    /\ req' = Some([profileID |-> profileID, topK |-> reqTopK])
    /\ res' = Some([topK |-> effectiveTopK(reqTopK),
                    limit |-> candidateLimit(ResolveProfile(profileID, "default_research"),
                                             effectiveTopK(reqTopK))])
    /\ UNCHANGED <<pvars, avars, wvars, tvars, evars, svars, lvars>>

\* The Search has returned.
SvcLimitDone ==
    /\ req # None
    /\ req' = None /\ res' = None
    /\ UNCHANGED <<pvars, avars, wvars, tvars, evars, svars, lvars>>

KNext ==
    \/ /\ req = None
       /\ \E profileID \in DOMAIN FixedProfiles \cup {""}, reqTopK \in 0..MaxTopK :
            SvcLimit(profileID, reqTopK)
    \/ SvcLimitDone

SpecLimit == InitAdm /\ [][KNext]_vars

\* C32: the limit passed to the provider is max(profile.bm25_top_n, top_k * 4), raised
\* to 200 when below and cut to 2000 when above, for every profile and every
\* effective top_k, which lies in 1..100.
C32_CandidateLimitClamped ==
    (req # None /\ res # None) =>
        LET profile == ResolveProfile(req[1].profileID, "default_research")
            larger == IF profile.bm25TopN > res[1].topK * 4 THEN profile.bm25TopN
                      ELSE res[1].topK * 4
        IN  /\ res[1].topK \in 1..100
            /\ res[1].limit = IF larger < 200 THEN 200 ELSE IF larger > 2000 THEN 2000 ELSE larger

\* ---------------------------------------------------------------------------------
\* The concurrency slots and the provider's lock together: Search and FetchChunk
\* calls of MaxReaders goroutines, one BuildIndex, one reindex of the watcher and one
\* flushIfDirty of the watcher, all on one Service and one provider. Every call takes
\* its slot, if it takes one, before it asks for p.mu.

\* The goroutines of the watcher's reindex and of the Flush worker, as writers of p.mu.
Reindexer == MaxReaders + 2
Flusher == MaxReaders + 3

\* Mutant: a build or flush returns without its deferred p.mu.Unlock().
UnlockSkipped(m) == m
\* The deferred p.mu.Unlock() of Build, BuildInMemory and Flush.
Unlock(m) == [m EXCEPT !.w = 0]

\* flushLocked and the release of the buffers that Build and Flush let follow it, on
\* provider pr and store s: [p, s, err].
flushAndRelease(pr, s, ok) ==
    IF pr.info = None THEN [p |-> ReleaseBuffers(pr), s |-> s, err |-> ""]
    ELSE IF ok
         THEN [p |-> ReleaseBuffers([pr EXCEPT !.dirty = FALSE]),
               s |-> SetDirty(SaveVectors(SaveIndex(s, pr.info[1], pr.chunks), pr.vectors), FALSE),
               err |-> ""]
         ELSE [p |-> pr, s |-> s, err |-> "io"]

\* Build, BuildInMemory or Flush between p.mu.Lock() and the deferred Unlock, with the
\* embedder and the store answering (embedOK, ok: without or with an error):
\* [p, s, err].
UnderLock(op, chunks, embedOK, ok) ==
    IF op = "Flush" THEN flushAndRelease(p, st, ok)
    ELSE LET r == embedAndBuild(p, st, chunks, InfoOf(chunks), embedOK)
         IN  IF r.err THEN [p |-> r.p, s |-> st, err |-> "embed"]
             ELSE IF op = "Build" THEN flushAndRelease(r.p, st, ok)
             ELSE [p |-> [r.p EXCEPT !.dirty = TRUE],
                   s |-> IF ok THEN SetDirty(st, TRUE) ELSE st,
                   err |-> IF ok THEN "" ELSE "io"]

\* The document BuildIndex and reindex find in the knowledge base.
KbDoc == ChunksOf(<<1>>)

\* What the goroutines 1..MaxReaders call: the odd ones Search, the even ones
\* FetchChunk.
SearchCallers == {r \in Readers : r % 2 = 1}
FetchCallers == Readers \ SearchCallers

\* Service.Search: beginQueued counts the search (a full queue turns it away, and the
\* call never held anything).
CcSearchBegin(r) ==
    /\ spc[r] = "idle" /\ rd[r].pc = "idle"
    /\ ~QueueFull(q)
    /\ SetAdm(beginQueuedCounted(q, sem))
    /\ spc' = [spc EXCEPT ![r] = "wait"]
    /\ UNCHANGED <<pvars, bpc, rpc, ret, wvars, tvars, evars, svars, rvars, lvars>>

\* beginQueued's select takes the send: the search holds a slot.
CcSearchSlot(r) ==
    /\ spc[r] = "wait"
    /\ SemHasRoom(sem)
    /\ SetAdm(beginQueuedSlot(q, sem))
    /\ spc' = [spc EXCEPT ![r] = "run"]
    /\ UNCHANGED <<pvars, bpc, rpc, ret, wvars, tvars, evars, svars, rvars, lvars>>

\* ensureLoaded, fast path: RLock, read p.indexReady, RUnlock.
ensureLoadedFast(r) ==
    /\ rd[r].pc = "idle"
    /\ mu.w = 0
    /\ rd' = [rd EXCEPT ![r].pc = IF p.indexReady THEN "rlock" ELSE "lock"]
    /\ UNCHANGED <<pvars, avars, wvars, tvars, evars, svars, rvars, mu, bld, lk>>

\* Service.FetchChunk takes no slot: provider.FetchChunk enters ensureLoaded.
CcFetchChunkBegin(r) == spc[r] = "idle" /\ ensureLoadedFast(r)

\* provider.Search, called with the slot held, enters ensureLoaded.
CcCheck(r) == spc[r] = "run" /\ ensureLoadedFast(r)

\* ensureLoaded, slow path: p.mu.Lock(), the shared lock having been released.
CcLock(r) ==
    /\ rd[r].pc = "lock"
    /\ mu = Unlocked
    /\ mu' = [mu EXCEPT !.w = r]
    /\ rd' = [rd EXCEPT ![r].pc = "slow"]
    /\ UNCHANGED <<pvars, avars, wvars, tvars, evars, svars, rvars, bld, lk>>

\* ensureLoaded, slow path under the lock, and its deferred Unlock; on an error the
\* call returns.
CcLoad(r) ==
    /\ rd[r].pc = "slow"
    /\ LET l == ensureLoaded(p, st)
       IN  /\ p' = l.p
           /\ rd' = [rd EXCEPT ![r].pc = IF l.err = "" THEN "rlock" ELSE "done"]
    /\ mu' = Unlock(mu)
    /\ UNCHANGED <<st, call, last, hist, avars, wvars, tvars, evars, svars, rvars, bld, lk>>

\* Search, FetchChunk: p.mu.RLock().
CcRLock(r) ==
    /\ rd[r].pc = "rlock"
    /\ mu.w = 0
    /\ mu' = [mu EXCEPT !.r = @ \cup {r}]
    /\ rd' = [rd EXCEPT ![r].pc = "read"]
    /\ UNCHANGED <<pvars, avars, wvars, tvars, evars, svars, rvars, bld, lk>>

\* The search or the lookup under the shared lock (neither changes the provider), and
\* the deferred RUnlock.
CcRead(r) ==
    /\ rd[r].pc = "read"
    /\ mu' = [mu EXCEPT !.r = @ \ {r}]
    /\ rd' = [rd EXCEPT ![r].pc = "done"]
    /\ UNCHANGED <<pvars, avars, wvars, tvars, evars, svars, rvars, bld, lk>>

\* provider.Search has returned, a result or an error: the deferred endQueued receives
\* from s.sem ...
CcSearchRelease(r) ==
    /\ spc[r] = "run" /\ rd[r].pc = "done"
    /\ SetAdm(endQueuedSlot(q, sem))
    /\ spc' = [spc EXCEPT ![r] = "released"]
    /\ UNCHANGED <<pvars, bpc, rpc, ret, wvars, tvars, evars, svars, rvars, lvars>>

\* ... and decrements s.q; Search returns.
CcSearchEnd(r) ==
    /\ spc[r] = "released"
    /\ SetAdm(endQueuedCounted(q, sem))
    /\ spc' = [spc EXCEPT ![r] = "idle"]
    /\ UNCHANGED <<pvars, bpc, rpc, ret, wvars, tvars, evars, svars, rvars, lvars>>

\* Service.BuildIndex up to acquireSem (buildChunksAndInfo holds nothing).
CcBuildIndexBegin ==
    /\ bpc = "idle"
    /\ bpc' = "wait"
    /\ UNCHANGED <<pvars, q, sem, spc, rpc, ret, wvars, tvars, evars, svars, rvars, lvars>>

\* acquireSem's select takes the send.
CcBuildIndexSlot ==
    /\ bpc = "wait"
    /\ SemHasRoom(sem)
    /\ SetAdm(acquireSem(q, sem))
    /\ bpc' = "run"
    /\ UNCHANGED <<pvars, spc, rpc, ret, wvars, tvars, evars, svars, rvars, lvars>>

\* provider.Build: p.mu.Lock(), with the slot held.
CcBuildLock ==
    /\ bpc = "run"
    /\ mu = Unlocked
    /\ mu' = [mu EXCEPT !.w = Builder]
    /\ bpc' = "build"
    /\ UNCHANGED <<pvars, q, sem, spc, rpc, ret, wvars, tvars, evars, svars, rvars, bld, rd, lk>>

\* provider.Build under the lock, and its deferred Unlock.
CcBuild ==
    /\ bpc = "build"
    /\ \E embedOK \in BOOLEAN, ok \in BOOLEAN :
        /\ ~embedOK => CallsEmbedder(p, st, KbDoc)
        /\ LET b == UnderLock("Build", KbDoc, embedOK, ok)
           IN  p' = b.p /\ st' = b.s
    /\ bpc' = "built"
    /\ mu' = Unlock(mu)
    /\ UNCHANGED <<call, last, hist, q, sem, spc, rpc, ret, wvars, tvars, evars, svars, rvars, bld, rd, lk>>

\* BuildIndex: the deferred releaseSem, and the return.
CcBuildIndexEnd ==
    /\ bpc = "built"
    /\ SetAdm(releaseSem(q, sem))
    /\ bpc' = "done"
    /\ UNCHANGED <<pvars, spc, rpc, ret, wvars, tvars, evars, svars, rvars, lvars>>

\* Watcher.reindex up to acquireSem.
CcReindexBegin ==
    /\ rpc = "idle"
    /\ rpc' = "wait"
    /\ UNCHANGED <<pvars, q, sem, spc, bpc, ret, wvars, tvars, evars, svars, rvars, lvars>>

CcReindexSlot ==
    /\ rpc = "wait"
    /\ SemHasRoom(sem)
    /\ SetAdm(acquireSem(q, sem))
    /\ rpc' = "run"
    /\ UNCHANGED <<pvars, spc, bpc, ret, wvars, tvars, evars, svars, rvars, lvars>>

\* BuildInMemory: p.mu.Lock(), with the slot held.
CcReindexLock ==
    /\ rpc = "run"
    /\ mu = Unlocked
    /\ mu' = [mu EXCEPT !.w = Reindexer]
    /\ rpc' = "build"
    /\ UNCHANGED <<pvars, q, sem, spc, bpc, ret, wvars, tvars, evars, svars, rvars, bld, rd, lk>>

\* BuildInMemory under the lock, and its deferred Unlock.
CcReindex ==
    /\ rpc = "build"
    /\ \E embedOK \in BOOLEAN, ok \in BOOLEAN :
        /\ ~embedOK => CallsEmbedder(p, st, KbDoc)
        /\ LET b == UnderLock("BuildInMemory", KbDoc, embedOK, ok)
           IN  p' = b.p /\ st' = b.s
    /\ rpc' = "built"
    /\ mu' = Unlock(mu)
    /\ UNCHANGED <<call, last, hist, q, sem, spc, bpc, ret, wvars, tvars, evars, svars, rvars, bld, rd, lk>>

\* reindex: releaseSem, and the return to the loop.
CcReindexEnd ==
    /\ rpc = "built"
    /\ SetAdm(releaseSem(q, sem))
    /\ rpc' = "done"
    /\ UNCHANGED <<pvars, spc, bpc, ret, wvars, tvars, evars, svars, rvars, lvars>>

\* flushIfDirty: fp.IsDirty() under the shared lock; if dirty, the worker goroutine is
\* started and the loop waits for it.
CcFlushFire ==
    /\ wpc = "select"
    /\ tmr.flush
    /\ mu.w = 0
    /\ tmr' = [tmr EXCEPT !.flush = FALSE]
    /\ IF p.dirty
       THEN wpc' = "flushWait" /\ wk' = [wk EXCEPT !.own = "pending"]
       ELSE UNCHANGED <<wpc, wk>>
    /\ UNCHANGED <<pvars, avars, wctx, sd, tvars, evars, svars, rvars, lvars>>

\* The worker's fp.Flush(): p.mu.Lock(); it holds no slot.
CcFlushLock ==
    /\ wk.own = "pending"
    /\ mu = Unlocked
    /\ mu' = [mu EXCEPT !.w = Flusher]
    /\ wk' = [wk EXCEPT !.own = "running"]
    /\ UNCHANGED <<pvars, avars, wpc, wctx, tmr, sd, tvars, evars, svars, rvars, bld, rd, lk>>

\* Flush under the lock, its deferred Unlock, and the send on done.
CcFlush ==
    /\ wk.own = "running"
    /\ \E ok \in BOOLEAN :
        LET b == UnderLock("Flush", <<>>, TRUE, ok)
        IN  /\ p' = b.p /\ st' = b.s
            /\ wk' = [wk EXCEPT !.own = IF b.err = "" THEN "ok" ELSE "err"]
    /\ mu' = Unlock(mu)
    /\ UNCHANGED <<call, last, hist, avars, wpc, wctx, tmr, sd, tvars, evars, svars, rvars, bld, rd, lk>>

\* flushIfDirty receives the worker's result from done.
CcFlushDone ==
    /\ wpc = "flushWait"
    /\ wk.own \in {"ok", "err"}
    /\ wk' = [wk EXCEPT !.own = "none"]
    /\ wpc' = "select"
    /\ UNCHANGED <<pvars, avars, wctx, tmr, sd, tvars, evars, svars, rvars, lvars>>

\* The steps reader r takes once its call is admitted.
ReaderStep(r) ==
    \/ CcSearchSlot(r) \/ CcCheck(r) \/ CcLock(r) \/ CcLoad(r)
    \/ CcRLock(r) \/ CcRead(r) \/ CcSearchRelease(r) \/ CcSearchEnd(r)

CcNext ==
    \/ \E r \in SearchCallers : CcSearchBegin(r)
    \/ \E r \in SearchCallers : CcSearchSlot(r)
    \/ \E r \in FetchCallers : CcFetchChunkBegin(r)
    \/ \E r \in SearchCallers : CcCheck(r)
    \/ \E r \in Readers : CcLock(r)
    \/ \E r \in Readers : CcLoad(r)
    \/ \E r \in Readers : CcRLock(r)
    \/ \E r \in Readers : CcRead(r)
    \/ \E r \in SearchCallers : CcSearchRelease(r)
    \/ \E r \in SearchCallers : CcSearchEnd(r)
    \/ CcBuildIndexBegin
    \/ CcBuildIndexSlot
    \/ CcBuildLock
    \/ CcBuild
    \/ CcBuildIndexEnd
    \/ CcReindexBegin
    \/ CcReindexSlot
    \/ CcReindexLock
    \/ CcReindex
    \/ CcReindexEnd
    \/ CcFlushFire
    \/ CcFlushLock
    \/ CcFlush
    \/ CcFlushDone

\* A provider opened on the store of an earlier Build; the flush timer of the watcher
\* is set.
InitLive ==
    /\ st = BuiltStore(KbDoc)
    /\ p = NewProvider(1)
    /\ call = Idle
    /\ last = NoReturn
    /\ hist = [idxOnly |-> FALSE, recov |-> "no"]
    /\ AInit /\ TInit /\ SInit /\ RInit /\ LInit /\ shorter = TRUE
    /\ wpc = "select" /\ wctx = "live" /\ wk = NoWorkers /\ sd = ""
    /\ tmr = [reindex |-> FALSE, flush |-> TRUE]

\* Fair scheduling: a goroutine that can take its next step takes it. A call that has
\* not begun need not begin.
SpecLive ==
    /\ InitLive /\ [][CcNext]_vars
    /\ \A r \in Readers : WF_vars(ReaderStep(r))
    /\ WF_vars(CcBuildIndexSlot \/ CcBuildLock \/ CcBuild \/ CcBuildIndexEnd)
    /\ WF_vars(CcReindexSlot \/ CcReindexLock \/ CcReindex \/ CcReindexEnd)
    /\ WF_vars(CcFlushLock \/ CcFlush \/ CcFlushDone)

\* No call is between its admission and its return.
AtRest ==
    /\ \A r \in Readers : spc[r] = "idle" /\ rd[r].pc \in {"idle", "done"}
    /\ bpc \in {"idle", "done"} /\ rpc \in {"idle", "done"}
    /\ wk.own = "none"

\* C33: under fair scheduling, with the embedder and the store answering, again and
\* again no call is left between its admission and its return (so every Search that
\* holds a slot, every FetchChunk, every BuildIndex and reindex that holds a slot and
\* every started Flush returns), and whenever that is so no slot is taken, no search
\* is counted and p.mu is free.
C33_NoDeadlock ==
    /\ []<>AtRest
    /\ [](AtRest => sem = 0 /\ q = 0 /\ mu = Unlocked)

\* C33 witness: BuildIndex holds the slot and waits for p.mu, which the Flush worker
\* holds, while a Search waits for the slot and a FetchChunk waits for the lock.
C33_Witness ==
    /\ bpc = "run" /\ mu.w = Flusher
    /\ \E r \in Readers : spc[r] = "wait"
    /\ \E r \in Readers : spc[r] = "idle" /\ rd[r].pc \in {"lock", "rlock"}

\* ---------------------------------------------------------------------------------
\* Flush and the persisted index.

\* A Build or a Flush has just returned nil and left the provider not dirty.
CleanAfterSave ==
    call.op = "idle" /\ last.op \in {"Build", "Flush"} /\ last.err = "" /\ ~p.dirty

\* C35: a Flush run on a provider that a successful Build or Flush has left not dirty
\* changes neither the persisted info nor the persisted chunks nor the persisted
\* vectors.
C35_FlushOfCleanKeepsStore ==
    CleanAfterSave =>
        LET f == flushAndRelease(p, st, TRUE).s
        IN  f.info = st.info /\ f.chunks = st.chunks /\ f.vec = st.vec

\* C36: when a Build, BuildInMemory, Flush or Invalidate has returned, with or without
\* an error, the provider's dirty mirror (what IsDirty() returns) equals the dirty
\* flag the store holds.
C36_MirrorEqualsPersisted ==
    (call.op = "idle" /\ last.op \in {"Build", "BuildInMemory", "Flush", "Invalidate"}) =>
        (p.dirty <=> IsDirty(st))

\* ---------------------------------------------------------------------------------
\* Flush seen from Search and FetchChunk: the resident buffer before it, the chunks
\* bucket after it.

\* The chunks a BuildInMemory left resident: chunk i has ordinal i; path and heading
\* are valid UTF-8 or not (a Latin-1 file name, a Latin-1 heading line).
FlushChunks ==
    {[src |-> s, ord |-> 0, heading |-> h, text |-> "t", tags |-> Some(t)] :
        s \in {"a.md", "Caf<E9>"}, h \in {"Intro", "Caf<E9>"}, t \in {<<>>, <<"x">>}}

FlushLists ==
    UNION {{[i \in 1..n |-> [f[i] EXCEPT !.ord = i]] : f \in [1..n -> FlushChunks]} : n \in 0..MaxStored}

\* Flush of a dirty provider without vectors: flushLocked writes the resident chunks
\* and no vectors; then the buffer is released.
FlFlush(chunks) ==
    /\ req = None
    /\ req' = Some(chunks)
    /\ db' = SaveIndexTx(db, [total |-> Len(chunks)], chunks)
    /\ vf' = WriteVectors(<<>>)
    /\ UNCHANGED <<pvars, avars, wvars, tvars, evars, kept, got, res, lvars>>

\* The next BuildInMemory makes another buffer resident.
FlDone ==
    /\ req # None
    /\ req' = None
    /\ UNCHANGED <<pvars, avars, wvars, tvars, evars, svars, res, lvars>>

FNext ==
    \/ \E chunks \in FlushLists : FlFlush(chunks)
    \/ FlDone

\* Flush calls on resident buffers of any content.
SpecFlush == InitAdm /\ [][FNext]_vars

\* The provider before the Flush, the buffer resident, and after it, the buffer
\* released, over the store the Flush wrote.
WithBuffer == [chunks |-> req]
NoBuffer == [chunks |-> None]
OnStore == [chunks |-> LoadChunksTx(db)]

\* A nil and an empty Tags slice are the same to the callers.
SameChunk(a, b) == [a EXCEPT !.tags = Some(Elems(@))] = [b EXCEPT !.tags = Some(Elems(@))]

\* C37: after a successful Flush, FetchChunk of any (source_path, ordinal) and the
\* resolution of any positional ids of a Search yield from the store the chunks they
\* yielded from the resident buffer before it.
C37_FlushTransparent ==
    req # None =>
        /\ \A src \in {"a.md", "Caf<E9>"}, ord \in 0..(MaxStored + 1) :
              LET before == fetchLoaded(WithBuffer, OnStore, src, ord)
                  after == fetchLoaded(NoBuffer, OnStore, src, ord)
              IN  /\ before = None <=> after = None
                  /\ before # None => SameChunk(before[1], after[1])
        /\ \A ids \in SUBSET (0..MaxStored) :
              LET before == resolveHits(WithBuffer, OnStore, ids)
                  after == resolveHits(NoBuffer, OnStore, ids)
              IN  /\ {h.id : h \in before} = {h.id : h \in after}
                  /\ \A h \in before, g \in after : h.id = g.id => SameChunk(h.chunk, g.chunk)

\* C38: with no provider call in progress, a store whose dirty flag is clear and that
\* holds an IndexInfo holds as many chunks as the info's total_chunks says (info and
\* chunks are those of one build).
C38_InfoMatchesChunks ==
    (call.op = "idle" /\ ~IsDirty(st) /\ st.info # None) =>
        st.info[1].total = Len(LoadChunks(st))

\* C39: with no provider call in progress, a provider that is ready with hasVecs set
\* has a vector index, and that index holds one vector per chunk of the current
\* build, the vector of that chunk's text.
C39_VectorIndexPresent ==
    (call.op = "idle" /\ p.indexReady /\ p.hasVecs) =>
        /\ p.vecIdx # None
        /\ Len(Elems(p.vecIdx)) = Len(Elems(p.txtIdx))
        /\ \A i \in 1..Len(Elems(p.vecIdx)) : p.vecIdx[1][i].of = p.txtIdx[1][i]
====
